---------------------------- MODULE Spec2Model ----------------------------
(***************************************************************************)
(* City Planning MCP server (src/City Planning ML Models MCP/MLserver.py). *)
(*                                                                         *)
(* The model covers the tool registry (handle_list_tools), the dispatcher  *)
(* (handle_call_tool) and the common skeleton of the seven kernels of      *)
(* CityPlanningModels: read the primary array, check its length, build the *)
(* features, fit a fresh model, predict, return a dict; every kernel body  *)
(* is wrapped in try/except Exception.                                     *)
(*                                                                         *)
(* Representation.                                                         *)
(*  - A text (an error message) is the sequence of its words.              *)
(*  - A Python dict is a TLA+ function whose domain is the set of keys.    *)
(*  - An array argument is [rows, shape, fill]: rows is its len(), shape   *)
(*    says whether numpy can make a rectangular numeric table of it, fill  *)
(*    determines the numbers in it (Cell gives the target column).         *)
(*  - The library estimators (sklearn, statsmodels) are not part of the    *)
(*    repository; fit is modelled by what the server's data flow depends   *)
(*    on: a value computed from the training rows and, for the two         *)
(*    randomized estimators, from the random_state.                        *)
(***************************************************************************)
EXTENDS Integers, Sequences, FiniteSets, TLC

VARIABLES
    models,     \* CityPlanningModels.models: model key -> None or a fitted model
    task,       \* per in-flight invocation of handle_call_tool: pc, name, arguments, result
    frame,      \* per invocation: the local variables of the running kernel
    prev,       \* the last completed invocation: its name, arguments and response
    numpyRaggedRaises, \* the installed numpy: does np.array raise on a ragged list (>= 1.24)
    run,        \* one kernel call seen from inside: its tool, its data dict, the
                \* values the estimator produced, and the dict it returned
    runner,     \* cityplanning_query_runner.main_runner: its position, the
                \* sub-questions, the loop index, the file it appends to
    summarizer  \* TextSummarizer.summarize_file: its position, the token counts
                \* of the text, of the chunks and of their summaries

vars == <<models, task, frame, prev, numpyRaggedRaises, run, runner, summarizer>>

\* Python's None
None == [kind |-> "None"]
\* no kernel: the else branch of the dispatcher
NoKernel == "<none>"

----------------------------------------------------------------------------
(* Bounds of the model *)

\* concurrent invocations in flight
NumTasks == 2
\* distinct contents an array argument can have
MaxFill == 2
\* rows past the minimum an array argument can have
RowSlack == 1
\* values of the entropy the operating system hands to an unseeded generator
MaxEntropy == 2

Tasks == 1..NumTasks

----------------------------------------------------------------------------
(* The tool registry: handle_list_tools *)

\* types.Tool(name=..., description=..., inputSchema={...}); properties maps
\* each property of the schema to its "type"
Tool(name, description, properties, required) ==
    [name |-> name,
     description |-> description,
     inputSchema |-> [type |-> "object", properties |-> properties,
                      required |-> required]]

handle_list_tools ==
    << Tool("predict_traffic_flow",
            "Predicts traffic flow and congestion using Random Forest. Requires historical traffic data, weather conditions, and events.",
            [historical_traffic |-> "array", weather_conditions |-> "object",
             events |-> "array", prediction_horizon |-> "integer"],
            <<"historical_traffic">>),
       Tool("forecast_air_quality",
            "Forecasts AQI using ARIMA time series model. Requires historical AQI data and weather forecast.",
            [historical_aqi |-> "array", weather_forecast |-> "object",
             forecast_days |-> "integer"],
            <<"historical_aqi">>),
       Tool("predict_urban_growth",
            "Predicts urban expansion and population growth using Ridge Regression. Requires historical population, economic, and infrastructure data.",
            [historical_data |-> "array", infrastructure_plans |-> "array",
             projection_years |-> "integer"],
            <<"historical_data">>),
       Tool("optimize_transit_routes",
            "Optimizes public transit routes using DBSCAN clustering. Requires demand points and constraints.",
            [demand_points |-> "array", existing_stops |-> "array",
             constraints |-> "object"],
            <<"demand_points">>),
       Tool("detect_crime_hotspots",
            "Detects anomalous crime patterns using Isolation Forest. Requires crime incident data.",
            [crime_incidents |-> "array", temporal_window |-> "integer",
             contamination |-> "number"],
            <<"crime_incidents">>),
       Tool("forecast_energy_demand",
            "Forecasts energy demand using seasonal decomposition. Requires historical demand data.",
            [historical_demand |-> "array", weather_forecast |-> "array",
             forecast_horizon |-> "integer"],
            <<"historical_demand">>),
       Tool("classify_land_use",
            "Classifies and optimizes land use patterns. Requires parcel data and development goals.",
            [parcels |-> "array", zoning_rules |-> "object",
             development_goals |-> "object"],
            <<"parcels">>) >>

\* the if/elif chain of handle_call_tool: the kernel a name is routed to
RouteTypo(name) ==
    CASE name = "predict_traffic_flow" -> "predict_traffic_flow"
      [] name = "forecast_air_quality" -> "forecast_air_quality"
      [] name = "predict_urban_growth" -> "predict_urban_growth"
      [] name = "optimize_transit_routes" -> "optimize_transit_routes"
      [] name = "detect_crime_hotspot" -> "detect_crime_hotspots"
      [] name = "forecast_energy_demand" -> "forecast_energy_demand"
      [] name = "classify_land_use" -> "classify_land_use"
      [] OTHER -> NoKernel

Route(name) ==
    CASE name = "predict_traffic_flow" -> "predict_traffic_flow"
      [] name = "forecast_air_quality" -> "forecast_air_quality"
      [] name = "predict_urban_growth" -> "predict_urban_growth"
      [] name = "optimize_transit_routes" -> "optimize_transit_routes"
      [] name = "detect_crime_hotspots" -> "detect_crime_hotspots"
      [] name = "forecast_energy_demand" -> "forecast_energy_demand"
      [] name = "classify_land_use" -> "classify_land_use"
      [] OTHER -> NoKernel

Kernels ==
    {"predict_traffic_flow", "forecast_air_quality", "predict_urban_growth",
     "optimize_transit_routes", "detect_crime_hotspots", "forecast_energy_demand",
     "classify_land_use"}

----------------------------------------------------------------------------
(* Per-kernel constants, read off the seven kernel bodies *)

\* the key of the primary array: data.get(<key>, [])
PrimaryKey(k) ==
    CASE k = "predict_traffic_flow" -> "historical_traffic"
      [] k = "forecast_air_quality" -> "historical_aqi"
      [] k = "predict_urban_growth" -> "historical_data"
      [] k = "optimize_transit_routes" -> "demand_points"
      [] k = "detect_crime_hotspots" -> "crime_incidents"
      [] k = "forecast_energy_demand" -> "historical_demand"
      [] k = "classify_land_use" -> "parcels"

\* the threshold of the length check: if len(...) < <n>
MinRows(k) ==
    CASE k = "predict_traffic_flow" -> 10
      [] k = "forecast_air_quality" -> 30
      [] k = "predict_urban_growth" -> 5
      [] k = "optimize_transit_routes" -> 10
      [] k = "detect_crime_hotspots" -> 50
      [] k = "forecast_energy_demand" -> 90
      [] k = "classify_land_use" -> 20

\* the message returned by the length check
InsufficientMessageGeneric(k) == <<"Insufficient", "historical", "data">>

InsufficientMessage(k) ==
    CASE k = "predict_traffic_flow" ->
            <<"Insufficient", "historical", "data", "(need", "at", "least", "10", "data", "points)">>
      [] k = "forecast_air_quality" ->
            <<"Need", "at", "least", "30", "days", "of", "historical", "AQI", "data">>
      [] k = "predict_urban_growth" ->
            <<"Need", "at", "least", "5", "years", "of", "historical", "data">>
      [] k = "optimize_transit_routes" ->
            <<"Need", "at", "least", "10", "demand", "points">>
      [] k = "detect_crime_hotspots" ->
            <<"Need", "at", "least", "50", "crime", "incidents", "for", "analysis">>
      [] k = "forecast_energy_demand" ->
            <<"Need", "at", "least", "90", "days", "of", "historical", "demand", "data">>
      [] k = "classify_land_use" ->
            <<"Need", "at", "least", "20", "land", "parcels", "for", "analysis">>

\* the prefix of the message built by the kernel's except clause
FailedPrefix(k) ==
    CASE k = "predict_traffic_flow" -> <<"Traffic", "prediction", "failed:">>
      [] k = "forecast_air_quality" -> <<"AQI", "forecasting", "failed:">>
      [] k = "predict_urban_growth" -> <<"Urban", "growth", "prediction", "failed:">>
      [] k = "optimize_transit_routes" -> <<"Transit", "optimization", "failed:">>
      [] k = "detect_crime_hotspots" -> <<"Crime", "hotspot", "detection", "failed:">>
      [] k = "forecast_energy_demand" -> <<"Energy", "demand", "forecasting", "failed:">>
      [] k = "classify_land_use" -> <<"Land", "use", "classification", "failed:">>

\* the "model" entry of a successful result
ModelName(k) ==
    CASE k = "predict_traffic_flow" -> "Random Forest Traffic Predictor"
      [] k = "forecast_air_quality" -> "ARIMA AQI Forecaster"
      [] k = "predict_urban_growth" -> "Ridge Regression Urban Growth Predictor"
      [] k = "optimize_transit_routes" -> "DBSCAN Transit Route Optimizer"
      [] k = "detect_crime_hotspots" -> "Isolation Forest Crime Hotspot Detector"
      [] k = "forecast_energy_demand" -> "Seasonal Decomposition Energy Forecaster"
      [] k = "classify_land_use" -> "Land Use Classifier and Optimizer"

\* the key of the payload list of a successful result
PayloadKey(k) ==
    CASE k = "predict_traffic_flow" -> "predictions"
      [] k = "forecast_air_quality" -> "forecasts"
      [] k = "predict_urban_growth" -> "projections"
      [] k = "optimize_transit_routes" -> "optimal_stops"
      [] k = "detect_crime_hotspots" -> "hotspots"
      [] k = "forecast_energy_demand" -> "forecasts"
      [] k = "classify_land_use" -> "conversion_recommendations"

\* the kernels that convert the argument with np.array before the length check
NumpyFirst(k) ==
    k \in {"predict_traffic_flow", "predict_urban_growth", "optimize_transit_routes"}

\* the kernels whose estimator takes a random_state
Randomized(k) == k \in {"predict_traffic_flow", "detect_crime_hotspots"}

\* the keys of CityPlanningModels.models
ModelKeys ==
    {"traffic_predictor", "aqi_forecaster", "growth_predictor", "transit_optimizer",
     "hotspot_detector", "demand_forecaster", "land_use_classifier"}

ModelKey(k) ==
    CASE k = "predict_traffic_flow" -> "traffic_predictor"
      [] k = "forecast_air_quality" -> "aqi_forecaster"
      [] k = "predict_urban_growth" -> "growth_predictor"
      [] k = "optimize_transit_routes" -> "transit_optimizer"
      [] k = "detect_crime_hotspots" -> "hotspot_detector"
      [] k = "forecast_energy_demand" -> "demand_forecaster"
      [] k = "classify_land_use" -> "land_use_classifier"

initialize_models == [key \in ModelKeys |-> None]

----------------------------------------------------------------------------
(* Argument values *)

NullArgs == [kind |-> "null"]
\* a JSON value that is not an object (a non-empty list)
ListArgs == [kind |-> "list"]
Dict(items) == [kind |-> "dict", items |-> items]
EmptyDict == Dict(<<>>)

NullValue == [kind |-> "null", rows |-> 0, shape |-> "none", fill |-> 0]
Array(n, shape, fill) == [kind |-> "array", rows |-> n, shape |-> shape, fill |-> fill]
\* the default of data.get(<key>, [])
EmptyList == Array(0, "ok", 0)

\* the value of the target column in row i (1-based) of a rectangular array
Cell(a, i) == a.fill * 10 + (i % 3)

\* shape "ok": rectangular numeric rows; "ragged": rows of unequal length;
\* "nonnumeric": rectangular rows the estimator cannot be fitted on (text where
\* a number is expected); "degenerate": rectangular numeric rows on which the
\* computation after the fit raises (a division by zero, an empty cluster set)
ArraysFor(k) ==
    LET m == MinRows(k) IN
      {Array(0, "ok", 0), Array(m - 1, "ok", 1)}
      \cup {Array(n, "ok", f) : n \in {m, m + RowSlack}, f \in 1..MaxFill}
      \cup {Array(n, "ragged", 1) : n \in {m - 1, m, m + RowSlack}}
      \cup {Array(m, "nonnumeric", 1), Array(m, "degenerate", 1)}

Names == Kernels \cup {"nonexistent_tool", "detect_crime_hotspot", ""}

ArgsFor(name) ==
    IF name \in Kernels
    THEN {NullArgs, ListArgs, EmptyDict,
          Dict("unrelated_key" :> Array(MinRows(name), "ok", 1)),
          Dict(PrimaryKey(name) :> NullValue)}
         \cup {Dict(PrimaryKey(name) :> a) : a \in ArraysFor(name)}
    ELSE {NullArgs, ListArgs, EmptyDict,
          Dict("historical_traffic" :> Array(10, "ok", 1))}

----------------------------------------------------------------------------
(* The kernels *)

\* what a block of kernel code does: go on to the next block with a value,
\* return a result dict, or raise an exception with a text
Continue(v) == [kind |-> "continue", value |-> v]
Return(r) == [kind |-> "return", value |-> r]
Raise(text) == [kind |-> "raise", value |-> text]

\* arguments or {}
OrEmpty(arguments) == IF arguments.kind = "null" THEN EmptyDict ELSE arguments

\* data.get(key, [])
GetNoDefault(data, key) ==
    IF key \in DOMAIN data.items THEN data.items[key] ELSE NullValue

Get(data, key) ==
    IF key \in DOMAIN data.items THEN data.items[key] ELSE EmptyList

\* the length check: len(historical) < <minimum>
TooFewOffByOne(k, n) == n <= MinRows(k)

TooFew(k, n) == n < MinRows(k)

\* the first block of every kernel: read the primary array, check its length,
\* slice the feature columns
KernelLoad(k, data, raggedRaises) ==
    IF data.kind # "dict"
    THEN Raise("'list' object has no attribute 'get'")
    ELSE
      LET v == Get(data, PrimaryKey(k)) IN
        IF v.kind = "null"
        THEN Raise(IF NumpyFirst(k) THEN "len() of unsized object"
                   ELSE "object of type 'NoneType' has no len()")
        ELSE IF NumpyFirst(k) /\ v.shape = "ragged" /\ raggedRaises
        THEN Raise("setting an array element with a sequence.")
        ELSE IF TooFew(k, v.rows)
        THEN Return([error |-> InsufficientMessage(k)])
        ELSE IF v.shape = "ragged"
        THEN Raise(IF raggedRaises /\ k \in {"detect_crime_hotspots", "classify_land_use"}
                   THEN "setting an array element with a sequence."
                   ELSE IF NumpyFirst(k) \/ k \in {"detect_crime_hotspots", "classify_land_use"}
                   THEN "too many indices for array"
                   ELSE "list index out of range")
        ELSE Continue(v)

\* a pseudo-random generator: the first draw of a generator seeded with s
FirstDraw(s) == (s * 5 + 3) % 16

\* random_state=42
Seed42 == 42

\* the seed the estimator's generator starts from; entropy is what the
\* operating system would hand to an unseeded generator
RandomStateUnseeded(entropy) == entropy

RandomState(entropy) == Seed42

\* model = <Estimator>(...); model.fit(X, y)
Fit(k, X, seed) ==
    IF X.shape = "nonnumeric"
    THEN Raise("could not convert string to float")
    ELSE Continue([kind |-> "fitted", kernel |-> k,
                   random_state |-> IF Randomized(k) THEN seed ELSE 0,
                   estimate |-> IF Randomized(k)
                                THEN Cell(X, 1 + (FirstDraw(seed) % X.rows))
                                ELSE Cell(X, X.rows)])

\* the result dict of a successful call
SuccessWithError(k, model) ==
    ("model" :> ModelName(k)) @@ (PayloadKey(k) :> <<model.estimate>>)
    @@ ("error" :> <<"none">>)

Success(k, model) ==
    ("model" :> ModelName(k)) @@ (PayloadKey(k) :> <<model.estimate>>)

\* the prediction and the metrics derived from it, then the return
Predict(k, X, model) ==
    IF X.shape = "degenerate"
    THEN Raise("division by zero")
    ELSE Return(Success(k, model))

\* except Exception as e: return {"error": f"<Tool> failed: {str(e)}"}
KernelExceptMissing(k, outcome) == outcome

KernelExcept(k, outcome) ==
    IF outcome.kind = "raise"
    THEN Return([error |-> FailedPrefix(k) \o <<outcome.value>>])
    ELSE outcome

----------------------------------------------------------------------------
(* The dispatcher: handle_call_tool *)

\* json.dumps(result, indent=2): the text of one JSON object
JsonDumps(result) == [json |-> "object", members |-> result]

\* [types.TextContent(type="text", text=...)]
TextContent(text) == <<[type |-> "text", text |-> text]>>

\* the else branch: {"error": f"Unknown tool: {name}"}
UnknownToolNoName(name) == [error |-> <<"Unknown", "tool">>]

UnknownTool(name) == [error |-> <<"Unknown", "tool:", name>>]

\* the outer except: json.dumps({"error": str(e)})
OuterExcept(text) == TextContent(JsonDumps([error |-> <<text>>]))

----------------------------------------------------------------------------
(* State *)

NoModel == [kind |-> "None", kernel |-> NoKernel, random_state |-> 0, estimate |-> 0]

\* a kernel's local variables before any is bound, and after the return
NoFrame == [data |-> EmptyDict, X |-> EmptyList, model |-> NoModel]

Idle ==
    [pc |-> "idle", method |-> "", name |-> "", arguments |-> NullArgs,
     kernel |-> NoKernel, raised |-> "", result |-> None, response |-> <<>>]

\* any: whether an invocation has completed yet
NoPrev == [any |-> FALSE, name |-> "", arguments |-> NullArgs, response |-> <<>>]

\* no kernel call has been looked into yet
NoRun == [tool |-> NoKernel, data |-> <<>>, fitted |-> None, result |-> None]

\* no query runner and no summarizer has been constructed
NoRunner == [pc |-> "none"]
NoSummarizer == [pc |-> "none"]

\* the local variables of a call live in the call's own frame
FrameShared(t) == 1

FrameOf(t) == t

\* model = <Estimator>(...): the fitted estimator is bound to a local name and
\* self.models is left as _initialize_models set it
CacheModel(ms, k, m) == [ms EXCEPT ![ModelKey(k)] = m]

KeepModel(ms, k, m) == ms

Init ==
    /\ models = initialize_models
    /\ task = [t \in Tasks |-> Idle]
    /\ frame = [t \in Tasks |-> NoFrame]
    /\ prev = NoPrev
    /\ numpyRaggedRaises \in BOOLEAN
    /\ run = NoRun
    /\ runner = NoRunner
    /\ summarizer = NoSummarizer

----------------------------------------------------------------------------
(* Actions *)

\* the transport calls handle_call_tool(name, arguments): logger.info
Invoke(t, name, arguments) ==
    /\ task[t].pc \in {"idle", "done"}
    /\ task' = [task EXCEPT ![t] =
                  [Idle EXCEPT !.pc = "dispatch", !.method = "call",
                               !.name = name, !.arguments = arguments]]
    /\ UNCHANGED <<models, frame, numpyRaggedRaises, run, runner, summarizer>>

\* what the transport has seen of the call that just completed
Log(t) ==
    IF task[t].pc = "done" /\ task[t].method = "call"
    THEN [any |-> TRUE, name |-> task[t].name, arguments |-> task[t].arguments,
          response |-> task[t].response]
    ELSE prev

Call(t, name, arguments) ==
    /\ Invoke(t, name, arguments)
    /\ prev' = Log(t)

\* the transport calls handle_list_tools()
ListTools(t) ==
    /\ task[t].pc \in {"idle", "done"}
    /\ task' = [task EXCEPT ![t] =
                  [Idle EXCEPT !.pc = "done", !.method = "list",
                               !.response = handle_list_tools]]
    /\ prev' = Log(t)
    /\ UNCHANGED <<models, frame, numpyRaggedRaises, run, runner, summarizer>>

\* the if/elif chain: enter the kernel with (arguments or {}), or build the
\* Unknown tool result
Dispatch(t) ==
    /\ task[t].pc = "dispatch"
    /\ LET k == Route(task[t].name) IN
         IF k = NoKernel
         THEN /\ task' = [task EXCEPT ![t].pc = "serialize",
                                      ![t].result = UnknownTool(task[t].name)]
              /\ UNCHANGED frame
         ELSE /\ task' = [task EXCEPT ![t].pc = "load", ![t].kernel = k]
              /\ frame' = [frame EXCEPT ![FrameOf(t)] =
                             [NoFrame EXCEPT !.data = OrEmpty(task[t].arguments)]]
    /\ UNCHANGED <<models, prev, numpyRaggedRaises, run, runner, summarizer>>

\* how a block of kernel code ends: raw is what the block did, and the kernel's
\* except clause turns a raise into a returned error dict; a raise that leaves
\* the kernel is caught by the except clause of handle_call_tool
Finish(t, raw, pcNext, frameNext) ==
    LET o == KernelExcept(task[t].kernel, raw)
        raised == IF raw.kind = "raise" THEN raw.value ELSE task[t].raised
    IN  CASE o.kind = "continue" ->
               /\ task' = [task EXCEPT ![t].pc = pcNext]
               /\ frame' = [frame EXCEPT ![FrameOf(t)] = frameNext]
          [] o.kind = "return" ->
               /\ task' = [task EXCEPT ![t].pc = "serialize", ![t].raised = raised,
                                       ![t].result = o.value]
               /\ frame' = [frame EXCEPT ![FrameOf(t)] = NoFrame]
          [] o.kind = "raise" ->
               /\ task' = [task EXCEPT ![t].pc = "done", ![t].raised = raised,
                                       ![t].response = OuterExcept(o.value)]
               /\ frame' = [frame EXCEPT ![FrameOf(t)] = NoFrame]

\* kernel, first block: data.get, np.array, the length check, the feature columns
Load(t) ==
    /\ task[t].pc = "load"
    /\ LET f == frame[FrameOf(t)]
           raw == KernelLoad(task[t].kernel, f.data, numpyRaggedRaises)
       IN  Finish(t, raw, "fit", [f EXCEPT !.X = raw.value])
    /\ UNCHANGED <<models, prev, numpyRaggedRaises, run, runner, summarizer>>

\* kernel, second block: construct the estimator and fit it
FitStep(t) ==
    /\ task[t].pc = "fit"
    /\ \E entropy \in 0..MaxEntropy :
         LET f == frame[FrameOf(t)]
             raw == Fit(task[t].kernel, f.X, RandomState(entropy))
         IN  /\ Finish(t, raw, "predict", [f EXCEPT !.model = raw.value])
             /\ models' = IF raw.kind = "continue"
                           THEN KeepModel(models, task[t].kernel, raw.value)
                           ELSE models
    /\ UNCHANGED <<prev, numpyRaggedRaises, run, runner, summarizer>>

\* kernel, third block: predict, derive the metrics, return the result dict
PredictStep(t) ==
    /\ task[t].pc = "predict"
    /\ LET f == frame[FrameOf(t)]
       IN  Finish(t, Predict(task[t].kernel, f.X, f.model), "predict", f)
    /\ UNCHANGED <<models, prev, numpyRaggedRaises, run, runner, summarizer>>

\* return [types.TextContent(type="text", text=json.dumps(result, indent=2))]
Serialize(t) ==
    /\ task[t].pc = "serialize"
    /\ task' = [task EXCEPT ![t].pc = "done",
                            ![t].response = TextContent(JsonDumps(task[t].result))]
    /\ UNCHANGED <<models, frame, prev, numpyRaggedRaises, run, runner, summarizer>>

\* one request at a time: the server behind a transport that awaits each call
Next ==
    \/ \E name \in Names : \E arguments \in ArgsFor(name) : Call(1, name, arguments)
    \/ ListTools(1)
    \/ Dispatch(1)
    \/ Load(1)
    \/ FitStep(1)
    \/ PredictStep(1)
    \/ Serialize(1)

Spec == Init /\ [][Next]_vars

----------------------------------------------------------------------------
(* Concurrent invocations: the transport starts handle_call_tool for a new
   request while others are in flight, and their blocks interleave *)

\* the requests in flight: one kernel of each kind (np.array first and
\* randomized, list first and deterministic, list first and randomized) and an
\* unknown name; the seven kernels run the same blocks
ConcNames ==
    {"predict_traffic_flow", "forecast_air_quality", "detect_crime_hotspots",
     "nonexistent_tool"}

ConcArgsFor(name) ==
    IF name \in Kernels
    THEN {Dict(PrimaryKey(name) :> Array(MinRows(name), "ok", f)) : f \in 1..MaxFill}
    ELSE {EmptyDict}

ConcCall(t, name, arguments) ==
    /\ Invoke(t, name, arguments)
    /\ UNCHANGED prev

InitConc ==
    /\ models = initialize_models
    /\ task = [t \in Tasks |-> Idle]
    /\ frame = [t \in Tasks |-> NoFrame]
    /\ prev = NoPrev
    /\ numpyRaggedRaises = TRUE
    /\ run = NoRun
    /\ runner = NoRunner
    /\ summarizer = NoSummarizer

NextConc ==
    \E t \in Tasks :
      \/ \E name \in ConcNames : \E arguments \in ConcArgsFor(name) :
            ConcCall(t, name, arguments)
      \/ Dispatch(t)
      \/ Load(t)
      \/ FitStep(t)
      \/ PredictStep(t)
      \/ Serialize(t)

SpecConc == InitConc /\ [][NextConc]_vars

----------------------------------------------------------------------------
(* The kernels from inside: the data dict, the estimator, the result dict.

   Numbers. Flows, AQI values, populations and megawatts are whole numbers.
   Where the code's thresholds and defaults are fractions, the quantity is
   kept in a fixed unit: demand weights in tenths, contamination and anomaly
   scores in hundredths, coordinates and distances in thousandths of a degree.

   Estimators. The library's fit is not repository code. Each estimator is
   modelled by the property of its output the kernel's data flow rests on,
   and the part of its output the library alone decides is an input of the
   call (lib), drawn from every value the property allows. *)

\* bounds of the inputs
MaxHorizon == 3
MaxShrink == 2

\* dict.get(key, default)
DictGet(d, key, default) == IF key \in DOMAIN d THEN d[key] ELSE default

\* the default each kernel passes to data.get for its optional argument
KernelDefaultShifted(key) ==
    CASE key = "prediction_horizon" -> 1
      [] key = "forecast_days" -> 1
      [] key = "projection_years" -> 1
      [] key = "max_distance" -> 1
      [] key = "contamination" -> 1
      [] key = "forecast_horizon" -> 1

KernelDefault(key) ==
    CASE key = "prediction_horizon" -> 1
      [] key = "forecast_days" -> 7
      [] key = "projection_years" -> 5
      [] key = "max_distance" -> 10
      [] key = "contamination" -> 10
      [] key = "forecast_horizon" -> 7

\* the "default" entries written in the input schemas of handle_list_tools:
\* tool name -> property -> default
SchemaDefaults ==
    [name \in Kernels |->
       CASE name = "predict_traffic_flow" -> [prediction_horizon |-> 1]
         [] name = "forecast_air_quality" -> [forecast_days |-> 7]
         [] name = "predict_urban_growth" -> [projection_years |-> 5]
         [] name = "optimize_transit_routes" -> <<>>
         [] name = "detect_crime_hotspots" -> [contamination |-> 10]
         [] name = "forecast_energy_demand" -> [forecast_horizon |-> 7]
         [] name = "classify_land_use" -> <<>>]

\* np.sum, sum()
RECURSIVE SumSeq(_)
SumSeq(s) == IF s = <<>> THEN 0 ELSE s[1] + SumSeq(Tail(s))

\* historical[:, j] (j counted from 1)
Column(rows, j) == [i \in DOMAIN rows |-> rows[i][j]]

\* the number of iterations of for ... in range(n)
RangeLen(n) == IF n > 0 THEN n ELSE 0

\* a value the library computes and the kernel copies into the result
LibraryValue(attribute) == [kind |-> "float", attribute |-> attribute]

\* what a kernel returns: the dict its body returned, or the error dict of its
\* except clause
KernelResult(k, outcome) == KernelExcept(k, outcome).value

----------------------------------------------------------------------------
(* predict_traffic_flow *)

\* _calculate_congestion_level
calculate_congestion_level_inclusive(flow_rate) ==
    IF flow_rate <= 30 THEN "low"
    ELSE IF flow_rate <= 60 THEN "moderate"
    ELSE IF flow_rate <= 80 THEN "high"
    ELSE "severe"

calculate_congestion_level(flow_rate) ==
    IF flow_rate < 30 THEN "low"
    ELSE IF flow_rate < 60 THEN "moderate"
    ELSE IF flow_rate < 80 THEN "high"
    ELSE "severe"

\* RandomForestRegressor(n_estimators=100, random_state=42).fit(X, y); shrink is
\* how far the bootstrap samples pull a leaf towards the mean of the targets
ForestFit(X, y, shrink) == [kind |-> "forest", X |-> X, y |-> y, shrink |-> shrink]

\* model.predict(features)[0]: the mean over the trees of a leaf value, each
\* leaf the mean of training targets: between the target of the training row
\* with these features and the mean of all targets
ForestPredict(model, features) ==
    LET i == CHOOSE i \in DOMAIN model.X : model.X[i] = features
        mean == SumSeq(model.y) \div Len(model.y)
    IN  model.y[i] + ((mean - model.y[i]) * model.shrink) \div MaxShrink

\* the feature vector the prediction of step h is made from:
\* last_features = X[-1].reshape(1, -1), read in every iteration
StepFeaturesWalking(X, h) == X[Len(X) - h]

StepFeatures(X, h) == X[Len(X)]

predict_traffic_flow(data, shrink) ==
    LET historical == DictGet(data, "historical_traffic", <<>>) IN
      IF TooFew("predict_traffic_flow", Len(historical))
      THEN [error |-> InsufficientMessage("predict_traffic_flow")]
      ELSE
        LET X == [i \in DOMAIN historical |-> SubSeq(historical[i], 2, 4)]
            y == Column(historical, 2)
            model == ForestFit(X, y, shrink)
            horizon == DictGet(data, "prediction_horizon",
                               KernelDefault("prediction_horizon"))
            predictions ==
              [i \in 1..RangeLen(horizon) |->
                 LET h == i - 1
                     pred == ForestPredict(model, StepFeatures(X, h))
                 IN  [hour_ahead |-> h + 1,
                      predicted_flow |-> pred,
                      congestion_level |-> calculate_congestion_level(pred)]]
        IN  [model |-> ModelName("predict_traffic_flow"),
             predictions |-> predictions,
             feature_importance |->
               [flow_rate |-> LibraryValue("feature_importances_[0]"),
                speed |-> LibraryValue("feature_importances_[1]"),
                occupancy |-> LibraryValue("feature_importances_[2]")],
             confidence_score |-> LibraryValue("score(X, y)")]

\* flows on both sides of each threshold of the congestion label
FlowLevels == {t + d : t \in {30, 60, 80}, d \in {-1, 0}} \cup {50}

\* n rows [timestamp, flow_rate, speed, occupancy]: the flow alternates
\* between odd and even, speed 40, occupancy 0.5 (in tenths)
TrafficRows(n, odd, even) ==
    [i \in 1..n |-> <<i, IF i % 2 = 1 THEN odd ELSE even, 40, 5>>]

\* the optional argument key: left out, or given one of the values
Optional(key, values) == {<<>>} \cup {key :> v : v \in values}

\* one kernel call is looked into in a behaviour; the other variables of the
\* server are not touched by it
ServerUnchanged ==
    /\ run = NoRun
    /\ UNCHANGED <<models, task, frame, prev, numpyRaggedRaises, runner, summarizer>>

CallTraffic ==
    \E n \in {MinRows("predict_traffic_flow") - 1, MinRows("predict_traffic_flow"),
              MinRows("predict_traffic_flow") + RowSlack},
       odd \in FlowLevels, even \in FlowLevels,
       opt \in Optional("prediction_horizon", (0 - 1)..MaxHorizon),
       shrink \in 0..MaxShrink :
      LET data == ("historical_traffic" :> TrafficRows(n, odd, even)) @@ opt IN
        /\ ServerUnchanged
        /\ run' = [tool |-> "predict_traffic_flow", data |-> data,
                   fitted |-> [shrink |-> shrink],
                   result |-> predict_traffic_flow(data, shrink)]

----------------------------------------------------------------------------
(* forecast_air_quality *)

\* _get_aqi_category
get_aqi_category(aqi) ==
    IF aqi <= 50 THEN "Good"
    ELSE IF aqi <= 100 THEN "Moderate"
    ELSE IF aqi <= 150 THEN "Unhealthy for Sensitive Groups"
    ELSE IF aqi <= 200 THEN "Unhealthy"
    ELSE IF aqi <= 300 THEN "Very Unhealthy"
    ELSE "Hazardous"

\* _get_aqi_recommendation
get_aqi_recommendation_exclusive(aqi) ==
    IF aqi < 50 THEN "Air quality is satisfactory"
    ELSE IF aqi < 100
    THEN "Unusually sensitive people should consider limiting prolonged outdoor exertion"
    ELSE IF aqi < 150
    THEN "People with respiratory or heart conditions should limit prolonged outdoor exertion"
    ELSE IF aqi < 200 THEN "Everyone should avoid prolonged outdoor exertion"
    ELSE IF aqi < 300 THEN "Everyone should avoid all outdoor exertion"
    ELSE "Everyone should remain indoors"

get_aqi_recommendation(aqi) ==
    IF aqi <= 50 THEN "Air quality is satisfactory"
    ELSE IF aqi <= 100
    THEN "Unusually sensitive people should consider limiting prolonged outdoor exertion"
    ELSE IF aqi <= 150
    THEN "People with respiratory or heart conditions should limit prolonged outdoor exertion"
    ELSE IF aqi <= 200 THEN "Everyone should avoid prolonged outdoor exertion"
    ELSE IF aqi <= 300 THEN "Everyone should avoid all outdoor exertion"
    ELSE "Everyone should remain indoors"

\* ARIMA(aqi_values, order=(2, 1, 2)).fit(); gain is the weight the fitted
\* coefficients give to the last difference of the series
ArimaFit(aqi_values, gain) == [kind |-> "arima", endog |-> aqi_values, gain |-> gain]

\* fitted_model.forecast(steps=forecast_days): the last value carried on by the
\* fitted share of the last difference (a constant series is forecast constant)
ArimaForecast(fitted_model, steps) ==
    LET n == Len(fitted_model.endog)
        last == fitted_model.endog[n]
        diff == last - fitted_model.endog[n - 1]
    IN  [i \in 1..steps |-> last + fitted_model.gain * diff * i]

forecast_air_quality(data, gain) ==
    LET historical == DictGet(data, "historical_aqi", <<>>) IN
      IF TooFew("forecast_air_quality", Len(historical))
      THEN [error |-> InsufficientMessage("forecast_air_quality")]
      ELSE
        LET aqi_values == Column(historical, 2)
            fitted_model == ArimaFit(aqi_values, gain)
            forecast_days == DictGet(data, "forecast_days", KernelDefault("forecast_days"))
            forecast == ArimaForecast(fitted_model, forecast_days)
            recommendations ==
              [i \in DOMAIN forecast |-> get_aqi_recommendation(forecast[i])]
        IN  [model |-> ModelName("forecast_air_quality"),
             forecasts |->
               [i \in DOMAIN forecast |->
                  [day |-> i,
                   predicted_aqi |-> forecast[i],
                   category |-> get_aqi_category(forecast[i]),
                   health_recommendation |-> recommendations[i]]],
             model_metrics |->
               [aic |-> LibraryValue("aic"), bic |-> LibraryValue("bic"),
                mae |-> LibraryValue("mean(abs(resid))")]]

\* AQI values on both sides of each bound of the categories
AqiLevels == {t + d : t \in {50, 100, 150, 200, 300}, d \in {0, 1}}

\* n rows [timestamp, aqi_value, pm25, pm10, o3, no2] whose AQI climbs by step
\* a day and ends at last
AqiRows(n, last, step) ==
    [i \in 1..n |-> <<i, last - step * (n - i), 12, 20, 30, 15>>]

CallAirQuality ==
    \E n \in {MinRows("forecast_air_quality") - 1, MinRows("forecast_air_quality"),
              MinRows("forecast_air_quality") + RowSlack},
       last \in AqiLevels, step \in 0..1,
       opt \in Optional("forecast_days", {1, MaxHorizon, 7}),
       gain \in 0..MaxShrink :
      LET data == ("historical_aqi" :> AqiRows(n, last, step)) @@ opt IN
        /\ ServerUnchanged
        /\ run' = [tool |-> "forecast_air_quality", data |-> data,
                   fitted |-> [gain |-> gain],
                   result |-> forecast_air_quality(data, gain)]

----------------------------------------------------------------------------
(* predict_urban_growth *)

\* int(x / d) for a whole x: Python's int() truncates towards zero
TruncDiv(x, d) == IF x >= 0 THEN x \div d ELSE 0 - ((0 - x) \div d)

\* a quotient the code keeps as a float
Ratio(num, den) == [num |-> num, den |-> den]

\* a product of floats the model does not multiply out
Product(ratio, factor) == [num |-> ratio.num, den |-> ratio.den, times |-> factor]

\* _calculate_infrastructure_needs; the population is a float, kept as a
\* quotient, and 0.15 / 1000 is 3 / 20000
calculate_infrastructure_needs_rounded(population) ==
    LET Rounded(x, d) == TruncDiv(2 * x + d, 2 * d) IN
    [schools_needed |-> Rounded(population.num, population.den * 5000),
     hospitals_needed |-> Rounded(population.num, population.den * 50000),
     parks_needed |-> Rounded(population.num, population.den * 10000),
     water_capacity_mld |-> Rounded(population.num * 3, population.den * 20000)]

calculate_infrastructure_needs(population) ==
    [schools_needed |-> TruncDiv(population.num, population.den * 5000),
     hospitals_needed |-> TruncDiv(population.num, population.den * 50000),
     parks_needed |-> TruncDiv(population.num, population.den * 10000),
     water_capacity_mld |-> TruncDiv(population.num * 3, population.den * 20000)]

\* Ridge(alpha=1.0).fit(X, y) with the intercept fitted: the columns are
\* centred and (X'X + alpha I) w = X'y is solved. A column that is constant is
\* zero once centred and has the coefficient 0; with the built area, the gdp
\* and the employment rate constant over the rows the coefficient of the year
\* t is Sxy / (Sxx + 1) = (n Sty - St Sy) / (n Stt - St St + n)
RidgeFit(X, y) ==
    LET n == Len(X)
        t == Column(X, 1)
        St == SumSeq(t)
        Sy == SumSeq(y)
        Stt == SumSeq([i \in 1..n |-> t[i] * t[i]])
        Sty == SumSeq([i \in 1..n |-> t[i] * y[i]])
    IN  [kind |-> "ridge", n |-> n, St |-> St, Sy |-> Sy,
         coef |-> Ratio(n * Sty - St * Sy, n * Stt - St * St + n)]

\* model.predict(row)[0] = mean(y) + coef * (t - mean(t)), t the year of the row
RidgePredict(model, row) ==
    Ratio(model.Sy * model.coef.den + model.coef.num * (model.n * row[1] - model.St),
          model.n * model.coef.den)

\* value * factor**years for a factor given in percent
RECURSIVE Compound(_, _, _)
Compound(value, percent, years) ==
    IF years = 0 THEN value
    ELSE (Compound(value, percent, years - 1) * percent) \div 100

\* X = historical[:, [0, 2, 3, 4]]; X[:, 0] = X[:, 0] - X[0, 0]
GrowthFeatures(historical) ==
    [i \in DOMAIN historical |->
       <<historical[i][1] - historical[1][1], historical[i][3],
         historical[i][4], historical[i][5]>>]

\* pop_prediction of the loop's pass for year: the fitted model on the last row
\* moved on by year years
PopPrediction(historical, year) ==
    LET X == GrowthFeatures(historical)
        n == Len(historical)
        model == RidgeFit(X, Column(historical, 2))
        last_row == <<X[n][1] + year, Compound(X[n][2], 102, year),
                      Compound(X[n][3], 103, year), X[n][4]>>
    IN  RidgePredict(model, last_row)

\* growth_rate = (pop_prediction / historical[-1, 1] - 1) * 100
GrowthRate(pop_prediction, historical) ==
    LET last == historical[Len(historical)][2]
    IN  Product(Ratio(pop_prediction.num - last * pop_prediction.den,
                      last * pop_prediction.den), 100)

predict_urban_growth(data) ==
    LET historical == DictGet(data, "historical_data", <<>>) IN
      IF TooFew("predict_urban_growth", Len(historical))
      THEN [error |-> InsufficientMessage("predict_urban_growth")]
      ELSE
        LET n == Len(historical)
            projection_years == DictGet(data, "projection_years",
                                        KernelDefault("projection_years"))
            projections ==
              [year \in 1..RangeLen(projection_years) |->
                 LET pop_prediction == PopPrediction(historical, year)
                 IN  [year |-> historical[n][1] + year,
                      predicted_population |->
                        TruncDiv(pop_prediction.num, pop_prediction.den),
                      growth_rate |-> GrowthRate(pop_prediction, historical),
                      infrastructure_needs |->
                        calculate_infrastructure_needs(pop_prediction)]]
        IN  [model |-> ModelName("predict_urban_growth"),
             projections |-> projections,
             model_coefficients |->
               [year_impact |-> RidgeFit(GrowthFeatures(historical),
                                         Column(historical, 2)).coef,
                built_area_impact |-> Ratio(0, 1),
                gdp_impact |-> Ratio(0, 1),
                employment_impact |-> Ratio(0, 1)],
             r_squared |-> LibraryValue("score(X, y)")]

\* populations of the last observed year
PopulationLevels == {4999, 5000, 49999, 100000}

\* n rows [year, population, built_area, gdp, employment_rate]; the population
\* rises by increase a year, and by jump more in the last year, to end at last;
\* the other three columns are constant
GrowthRows(n, last, increase, jump) ==
    [i \in 1..n |->
       <<2000 + i,
         IF i = n THEN last ELSE last - jump - increase * (n - i),
         100, 1000, 60>>]

CallUrbanGrowth ==
    \E n \in {MinRows("predict_urban_growth") - 1, MinRows("predict_urban_growth"),
              MinRows("predict_urban_growth") + RowSlack},
       last \in PopulationLevels, increase \in {0 - 100, 0, 100}, jump \in {0, 1000},
       opt \in Optional("projection_years", {0, 1, MaxHorizon, 5}) :
      LET data == ("historical_data" :> GrowthRows(n, last, increase, jump)) @@ opt IN
        /\ ServerUnchanged
        /\ run' = [tool |-> "predict_urban_growth", data |-> data,
                   fitted |-> None,
                   result |-> predict_urban_growth(data)]

----------------------------------------------------------------------------
(* optimize_transit_routes *)

\* one unit of demand weight, in the tenths the weights are kept in
WeightUnit == 10

\* the noise label of DBSCAN
Noise == 0 - 1

\* the sum of f[i] over the indices in S
RECURSIVE SumOver(_, _)
SumOver(S, f) ==
    IF S = {} THEN 0
    ELSE LET i == CHOOSE i \in S : TRUE IN f[i] + SumOver(S \ {i}, f)

Max(a, b) == IF a >= b THEN a ELSE b
Min(a, b) == IF a <= b THEN a ELSE b

\* np.ptp: the range of f over the indices in S
Ptp(S, f) ==
    LET hi == CHOOSE i \in S : \A j \in S : f[j] <= f[i]
        lo == CHOOSE i \in S : \A j \in S : f[i] <= f[j]
    IN  f[hi] - f[lo]

\* the square of the Euclidean distance of two coordinate pairs
Dist2(p, q) == (p[1] - q[1]) * (p[1] - q[1]) + (p[2] - q[2]) * (p[2] - q[2])

\* the eps-neighbourhood of every point, itself included
Neighborhoods(coords, eps) ==
    [i \in DOMAIN coords |-> {j \in DOMAIN coords : Dist2(coords[i], coords[j]) <= eps * eps}]

\* DBSCAN's core samples: the weight found in the eps-neighbourhood reaches
\* min_samples. With sample_weight the weights are summed, not the points counted
CoreSamplesCounted(near, weights, min_samples) ==
    {i \in DOMAIN near : Cardinality(near[i]) >= min_samples}

CoreSamples(near, weights, min_samples) ==
    {i \in DOMAIN near : SumOver(near[i], weights) >= min_samples * WeightUnit}

\* the points reached from S through the neighbourhoods of core samples
RECURSIVE Closure(_, _, _)
Closure(S, core, near) ==
    LET T == S \cup UNION {near[j] : j \in S \cap core}
    IN  IF T = S THEN S ELSE Closure(T, core, near)

\* the labelling pass of DBSCAN: every unlabelled core sample, in index order,
\* starts the next cluster, which takes the unlabelled points reached from it
RECURSIVE DbscanInner(_, _, _, _, _)
DbscanInner(i, labels, label_num, core, near) ==
    IF i > Len(labels) THEN labels
    ELSE IF labels[i] # Noise \/ i \notin core
    THEN DbscanInner(i + 1, labels, label_num, core, near)
    ELSE LET reached == {j \in Closure({i}, core, near) : labels[j] = Noise}
         IN  DbscanInner(i + 1,
                         [j \in DOMAIN labels |->
                            IF j \in reached THEN label_num ELSE labels[j]],
                         label_num + 1, core, near)

\* DBSCAN(eps=eps, min_samples=min_samples).fit_predict(coords, sample_weight=weights)
DbscanFitPredict(coords, weights, eps, min_samples) ==
    LET near == Neighborhoods(coords, eps)
        core == CoreSamples(near, weights, min_samples)
    IN  DbscanInner(1, [i \in DOMAIN coords |-> Noise], 0, core, near)

\* _calculate_coverage_area: the bounding box in sq km, 111 km per degree; the
\* coordinates are thousandths of a degree and lie within a degree of the
\* equator, where the cosine of the latitude is 1 to four digits
calculate_coverage_area(S, coords) ==
    IF Cardinality(S) < 3 THEN Ratio(0, 1)
    ELSE Ratio(Ptp(S, Column(coords, 1)) * 111 * Ptp(S, Column(coords, 2)) * 111,
               1000 * 1000)

\* _suggest_frequency
suggest_frequency_inclusive(demand) ==
    IF demand <= 100 * WeightUnit THEN "Every 30 minutes"
    ELSE IF demand <= 500 * WeightUnit THEN "Every 15 minutes"
    ELSE IF demand <= 1000 * WeightUnit THEN "Every 10 minutes"
    ELSE "Every 5 minutes"

suggest_frequency(demand) ==
    IF demand < 100 * WeightUnit THEN "Every 30 minutes"
    ELSE IF demand < 500 * WeightUnit THEN "Every 15 minutes"
    ELSE IF demand < 1000 * WeightUnit THEN "Every 10 minutes"
    ELSE "Every 5 minutes"

\* _calculate_route_efficiency
calculate_route_efficiency(optimal, existing) ==
    IF Len(existing) = 0 THEN Ratio(100, 1)
    ELSE IF Len(optimal) >= Len(existing) THEN Ratio(100, 1)
    ELSE Ratio(Len(optimal) * 100, Max(Len(existing), 1))

\* the entries of seq that satisfy Test, in order
RECURSIVE SelectIdx(_, _)
SelectIdx(n, keep) ==
    IF n = 0 THEN <<>>
    ELSE IF n \in keep THEN Append(SelectIdx(n - 1, keep), n)
    ELSE SelectIdx(n - 1, keep)

\* a list built by conditional appends: the texts whose condition holds, in order
AppendedAll(entries) == [i \in DOMAIN entries |-> entries[i][2]]

Appended(entries) ==
    LET keep == {i \in DOMAIN entries : entries[i][1]}
        idx == SelectIdx(Len(entries), keep)
    IN  [i \in DOMAIN idx |-> entries[idx[i]][2]]

\* _generate_transit_recommendations
generate_transit_recommendations(stops) ==
    LET high_demand == {i \in DOMAIN stops : stops[i].expected_demand > 500 * WeightUnit}
        low_coverage == {i \in DOMAIN stops :
                           stops[i].coverage_area.num < stops[i].coverage_area.den}
    IN  Appended(<<
          <<Len(stops) > 20,
            <<"Consider implementing express routes for high-demand corridors">> >>,
          <<high_demand # {},
            <<"Prioritize", Cardinality(high_demand),
              "high-demand stops for immediate implementation">> >>,
          <<low_coverage # {},
            <<"Add feeder routes for", Cardinality(low_coverage),
              "areas with limited coverage">> >> >>)

\* unique_clusters = set(clusters[clusters != -1])
UniqueClustersWithNoise(clusters) == {clusters[i] : i \in DOMAIN clusters}

UniqueClusters(clusters) == {clusters[i] : i \in DOMAIN clusters} \ {Noise}

\* the order in which a set of small whole numbers is walked: rising
InOrder(ids) ==
    [i \in 1..Cardinality(ids) |->
       CHOOSE v \in ids : Cardinality({w \in ids : w < v}) = i - 1]

\* the body of the try block of optimize_transit_routes
optimize_transit_routes_try(data) ==
    LET demand_points == DictGet(data, "demand_points", <<>>) IN
      IF TooFew("optimize_transit_routes", Len(demand_points))
      THEN Return([error |-> InsufficientMessage("optimize_transit_routes")])
      ELSE
        LET coords == [i \in DOMAIN demand_points |-> SubSeq(demand_points[i], 1, 2)]
            weights == Column(demand_points, 3)
            constraints == DictGet(data, "constraints", <<>>)
            eps == DictGet(constraints, "max_distance", KernelDefault("max_distance"))
            min_samples == Max(3, Len(coords) \div 20)
            clusters == DbscanFitPredict(coords, weights, eps, min_samples)
            unique_clusters == UniqueClusters(clusters)
            Members(cluster_id) == {i \in DOMAIN clusters : clusters[i] = cluster_id}
            Stop(cluster_id) ==
              LET S == Members(cluster_id)
                  total_demand == SumOver(S, weights)
              IN  [cluster_id |-> cluster_id,
                   location |->
                     [lat |-> Ratio(SumOver(S, [i \in DOMAIN coords |->
                                                  coords[i][1] * weights[i]]), total_demand),
                      lon |-> Ratio(SumOver(S, [i \in DOMAIN coords |->
                                                  coords[i][2] * weights[i]]), total_demand)],
                   expected_demand |-> total_demand,
                   coverage_area |-> calculate_coverage_area(S, coords),
                   suggested_frequency |-> suggest_frequency(total_demand)]
            optimal_stops ==
              [i \in 1..Cardinality(unique_clusters) |-> Stop(InOrder(unique_clusters)[i])]
            existing_stops == DictGet(data, "existing_stops", <<>>)
            efficiency == calculate_route_efficiency(optimal_stops, existing_stops)
            clustered == {i \in DOMAIN clusters : clusters[i] # Noise}
        IN  IF \E c \in unique_clusters : SumOver(Members(c), weights) = 0
            THEN Raise("Weights sum to zero, can't be normalized")
            ELSE IF Cardinality(unique_clusters) = 0
            THEN Raise("division by zero")
            ELSE Return(
              [model |-> ModelName("optimize_transit_routes"),
               optimal_stops |-> optimal_stops,
               route_metrics |->
                 [total_clusters |-> Cardinality(unique_clusters),
                  unclustered_points |-> Cardinality(DOMAIN clusters \ clustered),
                  average_cluster_size |->
                    Ratio(Cardinality(clustered), Cardinality(unique_clusters)),
                  coverage_efficiency |-> efficiency],
               recommendations |-> generate_transit_recommendations(optimal_stops)])

optimize_transit_routes(data) ==
    KernelResult("optimize_transit_routes", optimize_transit_routes_try(data))

\* demand points [lat, lon, demand_weight]: group A of a points from the
\* origin, group B of b points from (sep, sep), the points of a group spread
\* apart along the latitude, and along the longitude too when slant is 1;
\* every point of a group has the group's weight
DemandPoints(a, b, spread, slant, sep, wA, wB) ==
    [i \in 1..(a + b) |->
       IF i <= a THEN <<(i - 1) * spread, slant * (i - 1) * spread, wA>>
       ELSE <<sep + (i - a - 1) * spread, sep + slant * (i - a - 1) * spread, wB>>]

\* weights: half a unit, one unit, and those that put the demand of a group of
\* five on either side of each frequency tier
WeightLevels ==
    {WeightUnit \div 2, WeightUnit}
    \cup {tier * (WeightUnit \div 5) + d : tier \in {100, 500, 1000}, d \in {0 - 1, 0}}

ConstraintOptions ==
    {<<>>, "constraints" :> <<>>, "constraints" :> [min_demand |-> 5],
     "constraints" :> [max_distance |-> 10], "constraints" :> [max_distance |-> 30]}

CallTransit ==
    \E b \in {4, 5, 5 + RowSlack, 17}, spread \in {0, 1, 5, 20}, slant \in {0, 1},
       sep \in {5, 1000},
       wA \in WeightLevels, wB \in {WeightUnit, 3 * WeightUnit},
       constraints \in ConstraintOptions,
       existing \in Optional("existing_stops", {<< <<0, 0, 50>>, <<1000, 1000, 50>>, <<500, 500, 50>> >>}) :
      LET data == ("demand_points" :> DemandPoints(5, b, spread, slant, sep, wA, wB))
                  @@ constraints @@ existing
      IN  /\ ServerUnchanged
          /\ run' = [tool |-> "optimize_transit_routes", data |-> data,
                     fitted |-> None,
                     result |-> optimize_transit_routes(data)]

----------------------------------------------------------------------------
(* detect_crime_hotspots *)

\* _calculate_risk_level, the score in hundredths
calculate_risk_level_inclusive(anomaly_score) ==
    IF anomaly_score <= 0 - 50 THEN "high"
    ELSE IF anomaly_score <= 0 - 30 THEN "medium"
    ELSE "low"

calculate_risk_level(anomaly_score) ==
    IF anomaly_score < 0 - 50 THEN "high"
    ELSE IF anomaly_score < 0 - 30 THEN "medium"
    ELSE "low"

\* IsolationForest(contamination=...): the library accepts a contamination in
\* the range (0, 0.5] and raises for any other number
ContaminationAccepted(contamination) == 0 < contamination /\ contamination <= 50

\* model.score_samples: the anomaly score of each row, between -1 and 0, lower
\* for a row further from the bulk; depth is what the random trees (seeded with
\* 42) add for every row
ScoreSamples(features, depth) ==
    [i \in DOMAIN features |-> 0 - (29 + depth + features[i][1])]

\* the k-th smallest entry of a sequence (k counted from 1)
KthSmallest(s, k) ==
    CHOOSE v \in {s[i] : i \in DOMAIN s} :
      /\ Cardinality({i \in DOMAIN s : s[i] < v}) < k
      /\ Cardinality({i \in DOMAIN s : s[i] <= v}) >= k

\* model.fit_predict(features): offset_ is np.percentile(scores, 100 *
\* contamination), interpolated between the two nearest order statistics, and a
\* row is an anomaly (-1) when its score lies below offset_
IsolationFitPredict(scores, contamination) ==
    LET n == Len(scores)
        position == (n - 1) * contamination
        k == position \div 100
        f == position % 100
        below == KthSmallest(scores, k + 1)
        above == KthSmallest(scores, Min(k + 2, n))
    IN  [i \in DOMAIN scores |->
           IF scores[i] * 100 < below * (100 - f) + above * f THEN 0 - 1 ELSE 1]

\* hotspots[:20]
Top20All(hotspots) == hotspots

Top20(hotspots) == SubSeq(hotspots, 1, Min(20, Len(hotspots)))

\* _generate_prevention_strategies
generate_prevention_strategies(hotspots) ==
    LET high_risk == {i \in DOMAIN hotspots : hotspots[i].risk_level = "high"}
        violent_crimes == {i \in DOMAIN hotspots : hotspots[i].severity > 3}
    IN  Appended(<<
          <<high_risk # {},
            <<"Deploy additional patrols to", Cardinality(high_risk), "high-risk areas">> >>,
          <<violent_crimes # {},
            <<"Install CCTV cameras and improve lighting in violent crime hotspots">> >>,
          <<TRUE, <<"Implement community policing programs in identified hotspot areas">> >>,
          <<TRUE, <<"Coordinate with social services for intervention programs">> >> >>)

\* the body of the try block of detect_crime_hotspots
detect_crime_hotspots_try(data, depth) ==
    LET incidents == DictGet(data, "crime_incidents", <<>>) IN
      IF TooFew("detect_crime_hotspots", Len(incidents))
      THEN Return([error |-> InsufficientMessage("detect_crime_hotspots")])
      ELSE
        LET coords == [i \in DOMAIN incidents |-> SubSeq(incidents[i], 1, 2)]
            \* np.hstack([coords, np.arange(len(timestamps))])
            features == [i \in DOMAIN incidents |-> coords[i] \o <<i - 1>>]
            contamination == DictGet(data, "contamination", KernelDefault("contamination"))
            scores == ScoreSamples(features, depth)
            predictions == IsolationFitPredict(scores, contamination)
            \* np.where(predictions == -1)[0]: ascending indices
            hotspot_indices ==
              SelectIdx(Len(predictions), {i \in DOMAIN predictions : predictions[i] = 0 - 1})
            hotspots ==
              [h \in DOMAIN hotspot_indices |->
                 LET idx == hotspot_indices[h] IN
                   [location |-> [lat |-> coords[idx][1], lon |-> coords[idx][2]],
                    anomaly_score |-> scores[idx],
                    incident_type |-> incidents[idx][4],
                    severity |-> incidents[idx][5],
                    risk_level |-> calculate_risk_level(scores[idx])]]
            strategies == generate_prevention_strategies(hotspots)
        IN  IF ~ContaminationAccepted(contamination)
            THEN Raise("The 'contamination' parameter of IsolationForest must be a str among {'auto'} or a float in the range (0.0, 0.5].")
            ELSE Return(
              [model |-> ModelName("detect_crime_hotspots"),
               hotspots |-> Top20(hotspots),
               statistics |->
                 [total_incidents |-> Len(incidents),
                  hotspots_detected |-> Len(hotspots),
                  anomaly_rate |-> Ratio(Len(hotspots), Len(incidents)),
                  high_risk_areas |->
                    Cardinality({h \in DOMAIN hotspots : hotspots[h].risk_level = "high"})],
               prevention_strategies |-> strategies])

detect_crime_hotspots(data, depth) ==
    KernelResult("detect_crime_hotspots", detect_crime_hotspots_try(data, depth))

\* n rows [lat, lon, timestamp, crime_type, severity]; the latitudes walk
\* through width values in steps of stride
CrimeIncidents(n, stride, width) ==
    [i \in 1..n |-> <<(i * stride) % width, i % 5, i, IF i % 2 = 0 THEN "theft" ELSE "assault",
                      1 + (i % 5)>>]

\* contamination, in hundredths
ContaminationLevels == {0, 1, 10, 25, 50, 60}

CallCrime ==
    \E n \in {MinRows("detect_crime_hotspots") - 1, MinRows("detect_crime_hotspots"),
              MinRows("detect_crime_hotspots") + RowSlack},
       stride \in {1, 7}, width \in {2, 32},
       opt \in Optional("contamination", ContaminationLevels),
       depth \in 0..MaxShrink :
      LET data == ("crime_incidents" :> CrimeIncidents(n, stride, width)) @@ opt IN
        /\ ServerUnchanged
        /\ run' = [tool |-> "detect_crime_hotspots", data |-> data,
                   fitted |-> [depth |-> depth],
                   result |-> detect_crime_hotspots(data, depth)]

----------------------------------------------------------------------------
(* forecast_energy_demand *)

\* the sum of s[i] for i from lo to hi
RECURSIVE SumRange(_, _, _)
SumRange(s, lo, hi) == IF lo > hi THEN 0 ELSE s[lo] + SumRange(s, lo + 1, hi)

\* seasonal_decompose(series, model='additive', period=7).seasonal, weekday
\* p = 0..6, times 49: the series less its centred 7-day mean at the first day
\* of that weekday which has one, less the mean of the seven
SeasonalTimes49(series, p) ==
    LET Detrended7(q) ==
          LET j == IF q + 1 >= 4 THEN q + 1 ELSE q + 8
          IN  7 * series[j] - SumRange(series, j - 3, j + 3)
    IN  7 * Detrended7(p) - SumRange([q \in 1..7 |-> Detrended7(q - 1)], 1, 7)

\* np.polyfit(range(len(values)), values, 1)[0]: the slope of the fitted line,
\* here the mean daily change over the whole weeks the series ends with (the
\* least-squares slope of a line carrying a weekly pattern)
PolyfitSlope(values) ==
    LET n == Len(values)
        weeks == (n - 1) \div 7
    IN  Ratio(values[n] - values[n - 7 * weeks], 7 * weeks)

\* _identify_peak_hours
identify_peak_hours(daily_demand) ==
    IF daily_demand.num > 1000 * daily_demand.den
    THEN <<"07:00-09:00", "17:00-20:00">>
    ELSE <<"08:00-09:00", "18:00-19:00">>

\* _generate_grid_recommendations; temp_correlation in hundredths
generate_grid_recommendations(forecasts, temp_correlation) ==
    LET abs == IF temp_correlation < 0 THEN 0 - temp_correlation ELSE temp_correlation
    IN  Appended(<<
          <<\E i \in DOMAIN forecasts :
              forecasts[i].predicted_demand_mw.num > 1500 * forecasts[i].predicted_demand_mw.den,
            <<"Prepare reserve capacity for peak demand periods">> >>,
          <<abs > 70, <<"Implement dynamic pricing based on temperature forecasts">> >>,
          <<TRUE, <<"Consider demand response programs during peak hours">> >>,
          <<TRUE, <<"Optimize renewable energy integration during low-demand periods">> >> >>)

\* forecast_value = last_value + trend_slope * day + seasonal_adj, over
\* 49 * trend_slope.den; seasonal49 is 49 times the seasonal component
ForecastValueNextDay(last_value, trend_slope, seasonal49, day) ==
    Ratio(last_value * 49 * trend_slope.den
            + trend_slope.num * (day + 1) * 49
            + seasonal49 * trend_slope.den,
          49 * trend_slope.den)

ForecastValue(last_value, trend_slope, seasonal49, day) ==
    Ratio(last_value * 49 * trend_slope.den
            + trend_slope.num * day * 49
            + seasonal49 * trend_slope.den,
          49 * trend_slope.den)

\* the body of the try block of forecast_energy_demand; temp_correlation is
\* np.corrcoef(demand_values, temperatures)[0, 1], computed by the library.
\* With no forecast the max() of _generate_grid_recommendations raises
forecast_energy_demand_try(data, temp_correlation) ==
    LET historical == DictGet(data, "historical_demand", <<>>) IN
      IF TooFew("forecast_energy_demand", Len(historical))
      THEN Return([error |-> InsufficientMessage("forecast_energy_demand")])
      ELSE
        LET demand_values == Column(historical, 2)
            forecast_horizon == DictGet(data, "forecast_horizon",
                                        KernelDefault("forecast_horizon"))
            trend_slope == PolyfitSlope(demand_values)
            last_value == demand_values[Len(demand_values)]
            forecasts ==
              [i \in 1..RangeLen(forecast_horizon) |->
                 LET day == i - 1
                     forecast_value ==
                       ForecastValue(last_value, trend_slope,
                                     SeasonalTimes49(demand_values, day % 7), day)
                 IN  [day |-> day + 1,
                      predicted_demand_mw |-> forecast_value,
                      peak_hours |-> identify_peak_hours(forecast_value),
                      recommended_capacity |->
                        Ratio(forecast_value.num * 115, forecast_value.den * 100)]]
        IN  IF forecasts = <<>>
            THEN Raise("max() arg is an empty sequence")
            ELSE Return(
              [model |-> ModelName("forecast_energy_demand"),
               forecasts |-> forecasts,
               demand_patterns |->
                 [trend_direction |->
                    IF trend_slope.num > 0 THEN "increasing" ELSE "decreasing",
                  trend_rate_mw_per_day |-> trend_slope,
                  temperature_sensitivity |-> temp_correlation,
                  weekly_seasonality_strength |-> LibraryValue("std(seasonal)")],
               grid_recommendations |->
                 generate_grid_recommendations(forecasts, temp_correlation)])

forecast_energy_demand(data, temp_correlation) ==
    KernelResult("forecast_energy_demand",
                 forecast_energy_demand_try(data, temp_correlation))

\* the weekly pattern of the demand in the input rows
WeekShape == <<2, 1, 0, 0 - 1, 0 - 2, 0, 0>>

\* n rows [timestamp, demand_mw, temperature, day_type]: a level, a daily
\* slope and amp times the weekly pattern
EnergyRows(n, level, slope, amp) ==
    [i \in 1..n |->
       <<i, level + slope * (i - 1) + amp * WeekShape[((i - 1) % 7) + 1], 20 + (i % 10),
         IF i % 7 < 5 THEN "weekday" ELSE "weekend">>]

CallEnergy ==
    \E n \in {MinRows("forecast_energy_demand") - 1, MinRows("forecast_energy_demand"),
              MinRows("forecast_energy_demand") + RowSlack},
       level \in {900, 1000, 1500}, slope \in {0 - 1, 0, 1}, amp \in 0..1,
       opt \in Optional("forecast_horizon", {0, 1, MaxHorizon, 7, 8}),
       temp_correlation \in {0 - 80, 0, 70, 71} :
      LET data == ("historical_demand" :> EnergyRows(n, level, slope, amp)) @@ opt IN
        /\ ServerUnchanged
        /\ run' = [tool |-> "forecast_energy_demand", data |-> data,
                   fitted |-> [temp_correlation |-> temp_correlation],
                   result |-> forecast_energy_demand(data, temp_correlation)]

----------------------------------------------------------------------------
(* classify_land_use *)

\* the four use types of optimal_distribution, in the order of the dict
TargetUses == <<"residential", "commercial", "green", "industrial">>

\* pd.Series(current_uses).value_counts().to_dict(): use -> number of parcels
ValueCounts(current_uses) ==
    [u \in {current_uses[i] : i \in DOMAIN current_uses} |->
       Cardinality({i \in DOMAIN current_uses : current_uses[i] = u})]

\* the four target ratios times 10 * total_area, before they are normalized:
\* 50 sqm per housing unit, 20 sqm per job, the green space, and a tenth
TargetSharesFlat(goals, total_area) ==
    [residential |-> DictGet(goals, "housing_units", 1000) * 50 * 10,
     commercial |-> DictGet(goals, "jobs", 500) * 20 * 10,
     green |-> DictGet(goals, "green_space_sqm", 10000) * 10,
     industrial |-> 10 * total_area]

TargetShares(goals, total_area) ==
    [residential |-> DictGet(goals, "housing_units", 1000) * 50 * 10,
     commercial |-> DictGet(goals, "jobs", 500) * 20 * 10,
     green |-> DictGet(goals, "green_space_sqm", 10000) * 10,
     industrial |-> total_area]

calculate_sustainability_score_unclamped(current, coords) ==
    LET parcels_counted == SumOver(DOMAIN current, current)
        green == DictGet(current, "green", 0)
        clusters == DbscanFitPredict(coords, [i \in DOMAIN coords |-> WeightUnit], 10, 3)
        labels == Cardinality({clusters[i] : i \in DOMAIN clusters})
        n == Len(coords)
        \* over the denominator 4 * max(sum, 1) * n
        den == 4 * Max(parcels_counted, 1) * n
        score == green * 40 * 4 * n
                   + Cardinality(DOMAIN current) * 30 * Max(parcels_counted, 1) * n
                   + labels * 30 * 4 * Max(parcels_counted, 1)
    IN  Ratio(score, den)

\* _calculate_sustainability_score: 40 * green_ratio + 30 * diversity
\* + 30 * cluster_diversity, clamped to [0, 100]
calculate_sustainability_score(current, coords) ==
    LET parcels_counted == SumOver(DOMAIN current, current)
        green == DictGet(current, "green", 0)
        clusters == DbscanFitPredict(coords, [i \in DOMAIN coords |-> WeightUnit], 10, 3)
        labels == Cardinality({clusters[i] : i \in DOMAIN clusters})
        n == Len(coords)
        \* over the denominator 4 * max(sum, 1) * n
        den == 4 * Max(parcels_counted, 1) * n
        score == green * 40 * 4 * n
                   + Cardinality(DOMAIN current) * 30 * Max(parcels_counted, 1) * n
                   + labels * 30 * 4 * Max(parcels_counted, 1)
    IN  IF score > 100 * den THEN Ratio(100, 1)
        ELSE IF score < 0 THEN Ratio(0, 1)
        ELSE Ratio(score, den)

\* _generate_development_priorities
generate_development_priorities(conversions, goals) ==
    Appended(<<
      <<\E i \in DOMAIN conversions : conversions[i].convert_to = "residential",
        <<"Priority 1: Increase residential zoning to meet housing targets">> >>,
      <<DictGet(goals, "green_space_sqm", 0) > 0,
        <<"Priority 2: Preserve and expand green spaces for sustainability">> >>,
      <<TRUE, <<"Priority 3: Ensure mixed-use development for walkable neighborhoods">> >>,
      <<TRUE, <<"Priority 4: Create transit-oriented development zones">> >> >>)

\* current_ratio = use_distribution.get(use_type, 0) / len(parcels)
CurrentRatioPresent(use_distribution, use_type, n) ==
    Ratio(DictGet(use_distribution, use_type, 1), n)

CurrentRatio(use_distribution, use_type, n) ==
    Ratio(DictGet(use_distribution, use_type, 0), n)

\* the body of the try block of classify_land_use
classify_land_use_try(data) ==
    LET parcels == DictGet(data, "parcels", <<>>) IN
      IF TooFew("classify_land_use", Len(parcels))
      THEN Return([error |-> InsufficientMessage("classify_land_use")])
      ELSE
        LET n == Len(parcels)
            coords == [i \in DOMAIN parcels |-> SubSeq(parcels[i], 1, 2)]
            sizes == Column(parcels, 4)
            values == Column(parcels, 5)
            use_distribution == ValueCounts(Column(parcels, 3))
            goals == DictGet(data, "development_goals", <<>>)
            total_area == SumSeq(sizes)
            shares == TargetShares(goals, total_area)
            total_ratio == SumOver(DOMAIN shares, shares)
            \* optimal_distribution[k] = shares[k] / total_ratio
            Wanted(i) ==
              LET use_type == TargetUses[i]
                  current_ratio == CurrentRatio(use_distribution, use_type, n)
              IN  \* target_ratio > current_ratio * 1.1
                  shares[use_type] * current_ratio.den * 10
                    > current_ratio.num * 11 * total_ratio
            Conversion(i) ==
              LET use_type == TargetUses[i]
                  current_ratio == CurrentRatio(use_distribution, use_type, n)
                  \* target_ratio - current_ratio, over total_ratio * n
                  more == shares[use_type] * current_ratio.den
                            - current_ratio.num * total_ratio
              IN  [convert_to |-> use_type,
                   parcels_needed |-> TruncDiv(more * n, total_ratio * n),
                   area_needed_sqm |-> Product(Ratio(more, total_ratio * n), total_area)]
            wanted == SelectIdx(Len(TargetUses), {i \in DOMAIN TargetUses : Wanted(i)})
            conversions == [j \in DOMAIN wanted |-> Conversion(wanted[j])]
        IN  Return(
              [model |-> ModelName("classify_land_use"),
               current_distribution |->
                 [u \in DOMAIN use_distribution |->
                    [parcels |-> use_distribution[u],
                     percentage |-> Ratio(use_distribution[u] * 100, n)]],
               optimal_distribution |->
                 [u \in DOMAIN shares |->
                    [target_percentage |-> Ratio(shares[u] * 100, total_ratio)]],
               conversion_recommendations |-> conversions,
               metrics |->
                 [total_area_sqm |-> total_area,
                  average_parcel_size |-> Ratio(total_area, n),
                  land_value_per_sqm |-> Ratio(SumSeq(values), total_area),
                  sustainability_score |->
                    calculate_sustainability_score(use_distribution, coords)],
               development_priorities |->
                 generate_development_priorities(conversions, goals)])

classify_land_use(data) == KernelResult("classify_land_use", classify_land_use_try(data))

\* the uses the parcels of the input cycle through
UseCycles ==
    {<<"residential">>, <<"residential", "commercial">>,
     <<"residential", "commercial", "green", "industrial">>,
     <<"residential", "commercial", "green", "industrial", "mixed">>,
     <<"residential", "commercial", "green", "industrial", "mixed", "vacant",
       "civic", "school", "retail", "office", "farm", "water", "port", "rail">>}

\* n parcels [lat, lon, current_use, size_sqm, value], dealt in turn to sites a
\* degree apart and spread apart within each site
Parcels(n, uses, sites, spread, size) ==
    [i \in 1..n |->
       <<(i % sites) * 1000 + i * spread, 0, uses[((i - 1) % Len(uses)) + 1],
         size, 10 * size>>]

GoalOptions ==
    {<<>>, "development_goals" :> <<>>,
     "development_goals" :> [housing_units |-> 0, jobs |-> 0, green_space_sqm |-> 0],
     "development_goals" :> [housing_units |-> 10, jobs |-> 5, green_space_sqm |-> 100],
     "development_goals" :> [jobs |-> 1000]}

CallLandUse ==
    \E n \in {MinRows("classify_land_use") - 1, MinRows("classify_land_use"),
              MinRows("classify_land_use") + RowSlack},
       uses \in UseCycles, sites \in {1, 7}, spread \in {0, 1, 20},
       size \in {100, 1000}, goals \in GoalOptions :
      LET data == ("parcels" :> Parcels(n, uses, sites, spread, size)) @@ goals IN
        /\ ServerUnchanged
        /\ run' = [tool |-> "classify_land_use", data |-> data,
                   fitted |-> None,
                   result |-> classify_land_use(data)]

----------------------------------------------------------------------------
(* The kernels called one at a time, each on inputs of its own shape *)

InitKernels ==
    /\ models = initialize_models
    /\ task = [t \in Tasks |-> Idle]
    /\ frame = [t \in Tasks |-> NoFrame]
    /\ prev = NoPrev
    /\ numpyRaggedRaises = TRUE
    /\ run = NoRun
    /\ runner = NoRunner
    /\ summarizer = NoSummarizer

NextKernels ==
    \/ CallTraffic
    \/ CallAirQuality
    \/ CallUrbanGrowth
    \/ CallTransit
    \/ CallCrime
    \/ CallEnergy
    \/ CallLandUse

SpecKernels == InitKernels /\ [][NextKernels]_vars

----------------------------------------------------------------------------
(* The query runner: cityplanning_query_runner.main_runner *)

\* sub-questions the breakdown can return
MaxQuestions == 7

\* the ML server plays no part in the runner and the summarizer
ServerIdle == UNCHANGED <<models, task, frame, prev, numpyRaggedRaises, run>>

\* __init__: logger.info writes the user's question to the file
NewRunner ==
    [pc |-> "constructed", subquestions |-> <<>>, i |-> 0,
     file |-> <<"Original User Question">>, summary |-> None, report |-> None]

\* the passes of the for loop: range(max(num_sub_queries, 5))
LoopPasses(num_sub_queries) == Max(num_sub_queries, 5)

\* serve_query returns the agent's last message, or None after it has caught
\* an exception
ServeQueryOutcomes == {"answer", "None"}

\* setup, the breakdown call and json.loads(...)["subquestions"]: the model
\* returns any number of sub-questions
RunnerBreakdown ==
    /\ runner.pc = "constructed"
    /\ \E n \in 0..MaxQuestions :
         runner' = [runner EXCEPT !.pc = "loop", !.subquestions = [q \in 1..n |-> q],
                                  !.i = 0]
    /\ UNCHANGED summarizer
    /\ ServerIdle

\* one pass of the loop: subquestions[i] raises IndexError past the end of the
\* list, and the exception leaves main_runner; otherwise the sub-question is
\* served and it and the response are appended to the file
RunnerPass ==
    /\ runner.pc = "loop"
    /\ runner.i < LoopPasses(Len(runner.subquestions))
    /\ IF runner.i >= Len(runner.subquestions)
       THEN runner' = [runner EXCEPT !.pc = "IndexError"]
       ELSE \E response \in ServeQueryOutcomes :
              runner' = [runner EXCEPT
                           !.file = runner.file \o
                                      <<[question |-> runner.subquestions[runner.i + 1],
                                         response |-> response]>>,
                           !.i = runner.i + 1]
    /\ UNCHANGED summarizer
    /\ ServerIdle

\* after the loop: summary = self.summarizer.summarize_file(...)
RunnerSummarize ==
    /\ runner.pc = "loop"
    /\ runner.i >= LoopPasses(Len(runner.subquestions))
    /\ runner' = [runner EXCEPT !.pc = "report", !.summary = runner.file]
    /\ UNCHANGED summarizer
    /\ ServerIdle

\* the report is generated from the summary and written to report.md
RunnerReport ==
    /\ runner.pc = "report"
    /\ runner' = [runner EXCEPT !.pc = "done", !.report = runner.summary]
    /\ UNCHANGED summarizer
    /\ ServerIdle

InitRunner ==
    /\ models = initialize_models
    /\ task = [t \in Tasks |-> Idle]
    /\ frame = [t \in Tasks |-> NoFrame]
    /\ prev = NoPrev
    /\ numpyRaggedRaises = TRUE
    /\ run = NoRun
    /\ runner = NewRunner
    /\ summarizer = NoSummarizer

NextRunner ==
    \/ RunnerBreakdown
    \/ RunnerPass
    \/ RunnerSummarize
    \/ RunnerReport

SpecRunner == InitRunner /\ [][NextRunner]_vars

----------------------------------------------------------------------------
(* The summarizer: TextSummarizer.summarize_file *)

\* tokens the input file can hold
MaxTokens == 10

\* the tokens of the separator "\n\n" of the join: one token of cl100k_base
SeparatorTokens == 1

\* chunk_text: the token counts of the chunks, tokens[i:i + chunk_size] for i
\* in range(0, len(tokens), chunk_size)
RECURSIVE chunk_text(_, _)
chunk_text(tokens, chunk_size) ==
    IF tokens <= 0 THEN <<>>
    ELSE <<Min(tokens, chunk_size)>> \o chunk_text(tokens - chunk_size, chunk_size)

\* count_tokens("\n\n".join(summaries))
JoinTokensWide(summaries) ==
    IF summaries = <<>> THEN 0
    ELSE SumSeq(summaries) + (Len(summaries) - 1) * (SeparatorTokens + 1)

JoinTokens(summaries) ==
    IF summaries = <<>> THEN 0
    ELSE SumSeq(summaries) + (Len(summaries) - 1) * SeparatorTokens

\* TextSummarizer(max_context, chunk_size) about to read a file of file_tokens
\* tokens
NewSummarizer(max_context, chunk_size, file_tokens) ==
    [pc |-> "read", max_context |-> max_context, chunk_size |-> chunk_size,
     file_tokens |-> file_tokens, initial_tokens |-> 0, current_text |-> 0,
     chunks |-> <<>>, summaries |-> <<>>, shrinks |-> TRUE, returned |-> None]

\* the file is read and counted; a text under the limit is returned as it is
SummarizerRead ==
    /\ summarizer.pc = "read"
    /\ summarizer' =
         IF summarizer.file_tokens <= summarizer.max_context
         THEN [summarizer EXCEPT !.pc = "returned",
                                 !.initial_tokens = summarizer.file_tokens,
                                 !.returned = summarizer.file_tokens]
         ELSE [summarizer EXCEPT !.pc = "while",
                                 !.initial_tokens = summarizer.file_tokens,
                                 !.current_text = summarizer.file_tokens]
    /\ UNCHANGED runner
    /\ ServerIdle

\* the test of the while loop: over the limit the text is split into chunks,
\* otherwise it is saved and returned
SummarizerWhile ==
    /\ summarizer.pc = "while"
    /\ summarizer' =
         IF summarizer.current_text > summarizer.max_context
         THEN [summarizer EXCEPT
                 !.pc = "for",
                 !.chunks = chunk_text(summarizer.current_text, summarizer.chunk_size),
                 !.summaries = <<>>]
         ELSE [summarizer EXCEPT !.pc = "returned",
                                 !.returned = summarizer.current_text]
    /\ UNCHANGED runner
    /\ ServerIdle

\* one pass of the for loop: summarize_chunk returns what the model wrote, a
\* text of any length; one as long as its chunk is drawn only while the text
\* stays within MaxTokens
SummarizeChunk ==
    /\ summarizer.pc = "for"
    /\ Len(summarizer.summaries) < Len(summarizer.chunks)
    /\ LET chunk == summarizer.chunks[Len(summarizer.summaries) + 1]
           room == summarizer.current_text
                     + Len(summarizer.chunks) * (SeparatorTokens + 1) <= MaxTokens
       IN  \E summary \in 0..chunk :
             /\ summary < chunk \/ room
             /\ summarizer' = [summarizer EXCEPT
                                 !.summaries = Append(summarizer.summaries, summary),
                                 !.shrinks = summarizer.shrinks /\ summary < chunk]
    /\ UNCHANGED runner
    /\ ServerIdle

\* the summaries are joined into the text of the next iteration
SummarizerJoin ==
    /\ summarizer.pc = "for"
    /\ Len(summarizer.summaries) = Len(summarizer.chunks)
    /\ summarizer' = [summarizer EXCEPT !.pc = "while",
                                        !.current_text = JoinTokens(summarizer.summaries)]
    /\ UNCHANGED runner
    /\ ServerIdle

InitSummarizer ==
    /\ models = initialize_models
    /\ task = [t \in Tasks |-> Idle]
    /\ frame = [t \in Tasks |-> NoFrame]
    /\ prev = NoPrev
    /\ numpyRaggedRaises = TRUE
    /\ run = NoRun
    /\ runner = NoRunner
    /\ \E max_context \in {2, 6}, chunk_size \in {1, 4, 8}, file_tokens \in 0..MaxTokens :
         summarizer = NewSummarizer(max_context, chunk_size, file_tokens)

NextSummarizer ==
    \/ SummarizerRead
    \/ SummarizerWhile
    \/ SummarizeChunk
    \/ SummarizerJoin

\* summarize_file is straight-line code and loops of one thread: it goes on
\* while it has a step to take
SpecSummarizer == InitSummarizer /\ [][NextSummarizer]_vars /\ WF_vars(NextSummarizer)

----------------------------------------------------------------------------
(* Vocabulary of the properties *)

Range(seq) == {seq[i] : i \in DOMAIN seq}

\* task t has returned from handle_call_tool
Done(t) == task[t].pc = "done" /\ task[t].method = "call"

\* the JSON object in the single text item of a response
Body(response) == response[1].text.members

IsFailure(obj) == DOMAIN obj = {"error"}
IsSuccess(obj) == "model" \in DOMAIN obj /\ "error" \notin DOMAIN obj

ListedNames == {handle_list_tools[i].name : i \in DOMAIN handle_list_tools}

\* the minimum number of rows each tool documents
DocumentedMinimum(name) ==
    CASE name = "predict_traffic_flow" -> 10
      [] name = "forecast_air_quality" -> 30
      [] name = "predict_urban_growth" -> 5
      [] name = "optimize_transit_routes" -> 10
      [] name = "detect_crime_hotspots" -> 50
      [] name = "forecast_energy_demand" -> 90
      [] name = "classify_land_use" -> 20

\* a number as it is written in a message
DecimalWord(n) ==
    CASE n = 5 -> "5" [] n = 10 -> "10" [] n = 20 -> "20"
      [] n = 30 -> "30" [] n = 50 -> "50" [] n = 90 -> "90"

\* the words that identify a tool: those of its name and of the label its
\* kernel uses for itself, in either case
ToolWords(name) ==
    CASE name = "predict_traffic_flow" -> {"traffic", "Traffic", "flow", "Flow"}
      [] name = "forecast_air_quality" -> {"air", "Air", "quality", "Quality", "AQI", "aqi"}
      [] name = "predict_urban_growth" -> {"urban", "Urban", "growth", "Growth"}
      [] name = "optimize_transit_routes" -> {"transit", "Transit", "routes", "Routes"}
      [] name = "detect_crime_hotspots" ->
            {"crime", "Crime", "hotspot", "Hotspot", "hotspots", "Hotspots"}
      [] name = "forecast_energy_demand" -> {"energy", "Energy", "demand", "Demand"}
      [] name = "classify_land_use" -> {"land", "Land", "use", "Use"}

NamesTool(name, message) == ToolWords(name) \cap Range(message) # {}

\* the call gives the tool's primary array: as an array, by leaving the key
\* out, or by passing null arguments
GivesArray(name, arguments) ==
    \/ arguments.kind = "null"
    \/ /\ arguments.kind = "dict"
       /\ \/ PrimaryKey(name) \notin DOMAIN arguments.items
          \/ arguments.items[PrimaryKey(name)].kind = "array"

\* the rows of the primary array (an absent key and null arguments: no rows)
RowsGiven(name, arguments) ==
    IF arguments.kind = "dict" /\ PrimaryKey(name) \in DOMAIN arguments.items
    THEN arguments.items[PrimaryKey(name)].rows
    ELSE 0

\* the required key is absent from the arguments
KeyAbsent(name, arguments) ==
    \/ arguments.kind = "null"
    \/ arguments.kind = "dict" /\ PrimaryKey(name) \notin DOMAIN arguments.items

\* np.array refuses the primary array before its length is looked at
ConversionRefused(name, arguments) ==
    /\ name \in {"predict_traffic_flow", "predict_urban_growth", "optimize_transit_routes"}
    /\ numpyRaggedRaises
    /\ arguments.kind = "dict"
    /\ PrimaryKey(name) \in DOMAIN arguments.items
    /\ arguments.items[PrimaryKey(name)].shape = "ragged"

\* handle_call_tool(name, arguments) run on its own, from entry to return
RunAlone(name, arguments, raggedRaises) ==
    LET k == Route(name) IN
      IF k = NoKernel THEN TextContent(JsonDumps(UnknownTool(name)))
      ELSE
        LET End(o) == IF o.kind = "raise" THEN OuterExcept(o.value)
                      ELSE TextContent(JsonDumps(o.value))
            o1 == KernelExcept(k, KernelLoad(k, OrEmpty(arguments), raggedRaises))
        IN  IF o1.kind # "continue" THEN End(o1)
            ELSE LET o2 == KernelExcept(k, Fit(k, o1.value, RandomState(0)))
                 IN  IF o2.kind # "continue" THEN End(o2)
                     ELSE End(KernelExcept(k, Predict(k, o1.value, o2.value)))

----------------------------------------------------------------------------
(* C1 *)

\* C1: a call whose name is not one of the seven listed tool names returns, for
\* every arguments value, the single text item {"error": "Unknown tool: <name>"};
\* no kernel is entered and no exception is raised on the way.
C1_UnknownTool ==
    \A t \in Tasks :
      (task[t].method = "call" /\ task[t].name \notin ListedNames) =>
        /\ task[t].kernel = NoKernel
        /\ task[t].raised = ""
        /\ Done(t) =>
             /\ Len(task[t].response) = 1
             /\ task[t].response[1].type = "text"
             /\ Body(task[t].response) =
                  [error |-> <<"Unknown", "tool:", task[t].name>>]

C1_Witness ==
    /\ Done(1)
    /\ task[1].name = "nonexistent_tool"
    /\ task[1].arguments = NullArgs
    /\ prev.name = "detect_crime_hotspot"
    /\ prev.arguments.kind = "dict"

----------------------------------------------------------------------------
(* C2 *)

\* the Failure of the length check of the tool: its message names the minimum
NamesMinimum(name, obj) ==
    /\ IsFailure(obj)
    /\ DecimalWord(DocumentedMinimum(name)) \in Range(obj.error)

\* C2 as stated: for each of the seven tools, a call whose primary array has
\* fewer rows than the documented minimum m (absent key, null arguments: no
\* rows) returns a Failure whose message names m; a call with exactly m rows is
\* not rejected by the length check.
C2_Original ==
    \A t \in Tasks :
      (Done(t) /\ task[t].name \in ListedNames
         /\ GivesArray(task[t].name, task[t].arguments)) =>
        LET name == task[t].name
            rows == RowsGiven(name, task[t].arguments)
            obj == Body(task[t].response)
        IN  /\ rows < DocumentedMinimum(name) => NamesMinimum(name, obj)
            /\ rows = DocumentedMinimum(name) =>
                 ~(IsFailure(obj) /\ obj.error = InsufficientMessage(name))

\* C2 as amended: the Failure names m unless np.array refuses the rows before
\* the length is looked at (traffic, urban growth and transit convert first, and
\* numpy >= 1.24 raises on a ragged list); then the Failure carries the
\* conversion error under the kernel's label. In every case the call returns one
\* Failure item, and exactly m rows are not rejected by the length check.
C2_Minimum ==
    \A t \in Tasks :
      (Done(t) /\ task[t].name \in ListedNames
         /\ GivesArray(task[t].name, task[t].arguments)) =>
        LET name == task[t].name
            rows == RowsGiven(name, task[t].arguments)
            obj == Body(task[t].response)
        IN  /\ Len(task[t].response) = 1
            /\ rows < DocumentedMinimum(name) =>
                 /\ IsFailure(obj)
                 /\ ~ConversionRefused(name, task[t].arguments) =>
                      /\ NamesMinimum(name, obj)
                      /\ task[t].raised = ""
                 /\ ConversionRefused(name, task[t].arguments) =>
                      /\ ~NamesMinimum(name, obj)
                      /\ task[t].raised = "setting an array element with a sequence."
                      /\ NamesTool(name, obj.error)
            /\ rows = DocumentedMinimum(name) =>
                 ~(IsFailure(obj) /\ obj.error = InsufficientMessage(name))

\* both sides of the boundary have been served: one row short, then exactly m
C2_Witness ==
    /\ Done(1)
    /\ task[1].name = "forecast_energy_demand"
    /\ RowsGiven(task[1].name, task[1].arguments) = 90
    /\ IsSuccess(Body(task[1].response))
    /\ prev.name = "forecast_energy_demand"
    /\ prev.arguments.kind = "dict"
    /\ RowsGiven(prev.name, prev.arguments) = 89
    /\ NamesMinimum(prev.name, Body(prev.response))

----------------------------------------------------------------------------
(* C3 *)

\* the kernel's length check has rejected the input of task t
Rejected(t) ==
    /\ task[t].pc \in {"serialize", "done"}
    /\ task[t].method = "call"
    /\ task[t].kernel # NoKernel
    /\ task[t].raised = ""
    /\ RowsGiven(task[t].name, task[t].arguments) < DocumentedMinimum(task[t].name)

\* the object the call returns: held in result until it is serialized
Returned(t) ==
    IF task[t].pc = "done" THEN Body(task[t].response) ELSE task[t].result

\* C3 as stated: the message of every insufficient-data Failure names both the
\* minimum and the tool.
C3_Original ==
    \A t \in Tasks :
      Rejected(t) =>
        /\ NamesMinimum(task[t].name, Returned(t))
        /\ NamesTool(task[t].name, Returned(t).error)

\* C3 as amended: the message names the minimum; it names the tool for air
\* quality, crime, energy and land use, and does not for traffic, urban growth
\* and transit; the seven messages are pairwise different.
C3_InsufficientMessage ==
    \A t \in Tasks :
      Rejected(t) =>
        /\ NamesMinimum(task[t].name, Returned(t))
        /\ NamesTool(task[t].name, Returned(t).error) <=>
             task[t].name \in {"forecast_air_quality", "detect_crime_hotspots",
                               "forecast_energy_demand", "classify_land_use"}
        /\ \A other \in Kernels \ {task[t].kernel} :
             Returned(t).error # InsufficientMessage(other)

C3_Witness ==
    /\ Rejected(1)
    /\ Done(1)
    /\ task[1].name = "predict_urban_growth"
    /\ RowsGiven(task[1].name, task[1].arguments) = 4
    /\ ~NamesTool(task[1].name, Body(task[1].response).error)
    /\ prev.name = "detect_crime_hotspots"
    /\ prev.arguments = EmptyDict
    /\ NamesTool(prev.name, Body(prev.response).error)

----------------------------------------------------------------------------
(* C4 *)

\* C4: an exception raised in a kernel (while reading the input, building the
\* features, fitting or predicting) ends the call with a Failure whose message
\* carries a word naming the tool and ends with the text of the exception; the
\* exception never reaches the except clause of handle_call_tool, and the call
\* returns.
C4_KernelFault ==
    \A t \in Tasks :
      (task[t].method = "call" /\ task[t].raised # "") =>
        /\ task[t].pc \in {"serialize", "done"}
        /\ task[t].kernel # NoKernel
        /\ IsFailure(Returned(t))
        /\ NamesTool(task[t].name, Returned(t).error)
        /\ Returned(t).error[Len(Returned(t).error)] = task[t].raised
        /\ Returned(t).error = FailedPrefix(task[t].kernel) \o <<task[t].raised>>

\* a fault while predicting has been answered, after a fault while fitting
C4_Witness ==
    /\ Done(1)
    /\ task[1].name = "optimize_transit_routes"
    /\ task[1].raised = "division by zero"
    /\ prev.name = "classify_land_use"
    /\ prev.arguments.kind = "dict"
    /\ "could not convert string to float" \in Range(Body(prev.response).error)

----------------------------------------------------------------------------
(* C5 *)

\* C5: every call returns exactly one text item holding one JSON object, which
\* is either a Failure (the key "error" alone, with a message of words) or a
\* Success (the key "model" and no key "error"), never both and never neither.
C5_Envelope ==
    \A t \in Tasks :
      Done(t) =>
        /\ Len(task[t].response) = 1
        /\ task[t].response[1].type = "text"
        /\ task[t].response[1].text.json = "object"
        /\ LET obj == Body(task[t].response) IN
             /\ IsFailure(obj) # IsSuccess(obj)
             /\ "error" \in DOMAIN obj =>
                  /\ IsFailure(obj)
                  /\ Len(obj.error) > 0
                  /\ \A i \in DOMAIN obj.error : obj.error[i] \in STRING

\* a Success has been returned after a Failure
C5_Witness ==
    /\ Done(1)
    /\ IsSuccess(Body(task[1].response))
    /\ prev.any
    /\ IsFailure(Body(prev.response))

----------------------------------------------------------------------------
(* C6 *)

\* C6: whatever has been invoked, every entry of CityPlanningModels.models is
\* None as _initialize_models set it, and a returned response is the one the
\* call gives when it is the only call the server ever served.
C6_Stateless ==
    /\ DOMAIN models = ModelKeys
    /\ \A key \in DOMAIN models : models[key] = None
    /\ \A t \in Tasks :
         Done(t) =>
           task[t].response =
             RunAlone(task[t].name, task[t].arguments, numpyRaggedRaises)

\* two fits on different data have been served one after the other
C6_Witness ==
    /\ Done(1)
    /\ task[1].name = "predict_traffic_flow"
    /\ IsSuccess(Body(task[1].response))
    /\ prev.name = "predict_traffic_flow"
    /\ IsSuccess(Body(prev.response))
    /\ prev.response # task[1].response

----------------------------------------------------------------------------
(* C7 *)

\* the primary array the call of task t was given
OwnArray(t) == Get(OrEmpty(task[t].arguments), PrimaryKey(task[t].kernel))

\* C7: with invocations in flight together and their blocks interleaved in any
\* order, each call works on the feature table and the fitted model it built
\* itself, and returns the response it returns when run alone.
C7_Isolation ==
    \A t \in Tasks :
      /\ task[t].pc \in {"fit", "predict"} =>
           frame[FrameOf(t)].X = OwnArray(t)
      /\ task[t].pc = "predict" =>
           frame[FrameOf(t)].model =
             Fit(task[t].kernel, OwnArray(t), frame[FrameOf(t)].model.random_state).value
      /\ Done(t) =>
           task[t].response =
             RunAlone(task[t].name, task[t].arguments, numpyRaggedRaises)

\* a call has returned its Success while another call, of another kernel, is
\* between its fit and its prediction
C7_Witness ==
    /\ Done(1)
    /\ task[1].name = "detect_crime_hotspots"
    /\ IsSuccess(Body(task[1].response))
    /\ task[2].pc = "predict"
    /\ task[2].name = "predict_traffic_flow"

----------------------------------------------------------------------------
(* C8 *)

\* C8: a call repeated with the same name and the same arguments returns the
\* same response; the estimators of the two randomized kernels start from
\* random_state 42 in every call.
C8_Repeatable ==
    /\ (Done(1) /\ prev.any
          /\ prev.name = task[1].name /\ prev.arguments = task[1].arguments) =>
         prev.response = task[1].response
    /\ \A t \in Tasks :
         (task[t].pc = "predict"
            /\ task[t].kernel \in {"predict_traffic_flow", "detect_crime_hotspots"}) =>
           frame[FrameOf(t)].model.random_state = 42

\* a randomized kernel has answered the same successful request twice
C8_Witness ==
    /\ Done(1)
    /\ task[1].name = "detect_crime_hotspots"
    /\ prev.any
    /\ prev.name = task[1].name
    /\ prev.arguments = task[1].arguments
    /\ IsSuccess(Body(task[1].response))

----------------------------------------------------------------------------
(* C9 *)

\* the list of tools, as a response of handle_list_tools must read
WellFormedList(r) ==
    /\ Len(r) = 7
    /\ [i \in 1..7 |-> r[i].name] =
         <<"predict_traffic_flow", "forecast_air_quality", "predict_urban_growth",
           "optimize_transit_routes", "detect_crime_hotspots",
           "forecast_energy_demand", "classify_land_use">>
    /\ \A i, j \in 1..7 : i # j => r[i].name # r[j].name
    /\ \A i \in 1..7 :
         /\ r[i].description # ""
         /\ Len(r[i].inputSchema.required) = 1
         /\ r[i].inputSchema.required[1] \in DOMAIN r[i].inputSchema.properties
         /\ r[i].inputSchema.properties[r[i].inputSchema.required[1]] = "array"

\* C9: handle_list_tools returns the same seven tools in the same order on every
\* call, their names pairwise different, each with a description and a schema
\* that requires exactly one key, an array; and handle_call_tool enters a kernel
\* for a name exactly when the name is one of the seven listed.
C9_Registry ==
    \A t \in Tasks :
      /\ (task[t].method = "list" /\ task[t].pc = "done") =>
           WellFormedList(task[t].response)
      /\ (task[t].method = "call" /\ task[t].pc # "dispatch") =>
           /\ task[t].kernel # NoKernel <=>
                \E i \in DOMAIN handle_list_tools :
                  handle_list_tools[i].name = task[t].name
           /\ task[t].kernel # NoKernel => task[t].kernel = task[t].name
           /\ Done(t) =>
                (/\ task[t].kernel = NoKernel
                 /\ IsFailure(Body(task[t].response))
                 /\ SubSeq(Body(task[t].response).error, 1, 2) = <<"Unknown", "tool:">>)
                <=> task[t].name \notin ListedNames

\* the tools have been listed after the last listed tool was called and routed
C9_Witness ==
    /\ task[1].method = "list"
    /\ task[1].pc = "done"
    /\ prev.name = "classify_land_use"
    /\ IsSuccess(Body(prev.response))

----------------------------------------------------------------------------
(* C10 *)

----------------------------------------------------------------------------
(* Vocabulary of the properties about one kernel call *)

\* the kernel of the call run again on other data, the library behaving as it did
KernelOf(tool, data, fitted) ==
    CASE tool = "predict_traffic_flow" -> predict_traffic_flow(data, fitted.shrink)
      [] tool = "forecast_air_quality" -> forecast_air_quality(data, fitted.gain)
      [] tool = "predict_urban_growth" -> predict_urban_growth(data)
      [] tool = "optimize_transit_routes" -> optimize_transit_routes(data)
      [] tool = "detect_crime_hotspots" -> detect_crime_hotspots(data, fitted.depth)
      [] tool = "forecast_energy_demand" ->
            forecast_energy_demand(data, fitted.temp_correlation)
      [] tool = "classify_land_use" -> classify_land_use(data)

\* the call returned a Success
Succeeded(tool) == run.tool = tool /\ IsSuccess(run.result)

\* the labels in rising order of what they measure
Rank(labels, label) == CHOOSE i \in DOMAIN labels : labels[i] = label

----------------------------------------------------------------------------
(* C11 *)

\* the optional argument with a documented default of each tool that has one
OptionalKey(tool) ==
    CASE tool = "predict_traffic_flow" -> "prediction_horizon"
      [] tool = "forecast_air_quality" -> "forecast_days"
      [] tool = "predict_urban_growth" -> "projection_years"
      [] tool = "optimize_transit_routes" -> "max_distance"
      [] tool = "detect_crime_hotspots" -> "contamination"
      [] tool = "forecast_energy_demand" -> "forecast_horizon"

\* the documented defaults: contamination 0.1 in hundredths, max_distance 0.01
\* in thousandths of a degree
DocumentedDefault(key) ==
    CASE key = "prediction_horizon" -> 1
      [] key = "forecast_days" -> 7
      [] key = "projection_years" -> 5
      [] key = "max_distance" -> 10
      [] key = "contamination" -> 10
      [] key = "forecast_horizon" -> 7

\* the optional argument is left out of the data of the call (max_distance is a
\* key of the optional object constraints)
LeftOut(tool, data) ==
    IF tool = "optimize_transit_routes"
    THEN "max_distance" \notin DOMAIN DictGet(data, "constraints", <<>>)
    ELSE OptionalKey(tool) \notin DOMAIN data

\* the same data with the documented default passed explicitly
WithDefault(tool, data) ==
    IF tool = "optimize_transit_routes"
    THEN ("constraints" :>
            (DictGet(data, "constraints", <<>>)
               @@ ("max_distance" :> DocumentedDefault("max_distance"))))
         @@ data
    ELSE data @@ (OptionalKey(tool) :> DocumentedDefault(OptionalKey(tool)))

\* C11: for every tool with an optional argument, a call that leaves the
\* argument out returns what the call returns with the documented default passed
\* explicitly (prediction_horizon 1, forecast_days 7, projection_years 5,
\* constraints.max_distance 0.01, contamination 0.1, forecast_horizon 7); and
\* every default written in the tool's input schema is the default the kernel
\* passes to data.get.
C11_Defaults ==
    (run.tool \in Kernels \ {"classify_land_use"}) =>
      /\ LeftOut(run.tool, run.data) =>
           run.result = KernelOf(run.tool, WithDefault(run.tool, run.data), run.fitted)
      /\ \A property \in DOMAIN SchemaDefaults[run.tool] :
           /\ handle_list_tools[CHOOSE i \in 1..7 : handle_list_tools[i].name = run.tool]
                .inputSchema.properties[property] \in {"integer", "number"}
           /\ SchemaDefaults[run.tool][property] = KernelDefault(property)
           /\ SchemaDefaults[run.tool][property] = DocumentedDefault(property)

\* a forecast without forecast_days has returned seven days
C11_Witness ==
    /\ Succeeded("forecast_air_quality")
    /\ "forecast_days" \notin DOMAIN run.data
    /\ Len(run.result.forecasts) = 7
    /\ "forecast_days" \in DOMAIN SchemaDefaults["forecast_air_quality"]

----------------------------------------------------------------------------
(* C12 *)

\* the rows of the call all carry the same flow
SameFlow(rows, flow) == \A i \in DOMAIN rows : rows[i][2] = flow

\* C12: a successful traffic call with prediction_horizon h >= 0 (1 when left
\* out) returns exactly h predictions, hour_ahead 1, 2, ..., h in order, all with
\* the predicted_flow and the congestion_level of the first, which is the
\* estimator's prediction for the last observed row; for rows that all carry the
\* flow 50 every predicted flow is 50 and every level is "moderate".
C12_Horizon ==
    Succeeded("predict_traffic_flow") =>
      LET h == DictGet(run.data, "prediction_horizon", 1)
          rows == run.data["historical_traffic"]
          predictions == run.result.predictions
          X == [i \in DOMAIN rows |-> SubSeq(rows[i], 2, 4)]
      IN  h >= 0 =>
            /\ Len(predictions) = h
            /\ \A i \in DOMAIN predictions :
                 /\ predictions[i].hour_ahead = i
                 /\ predictions[i].predicted_flow = predictions[1].predicted_flow
                 /\ predictions[i].congestion_level = predictions[1].congestion_level
                 /\ predictions[i].predicted_flow =
                      ForestPredict(ForestFit(X, Column(rows, 2), run.fitted.shrink),
                                    X[Len(X)])
                 /\ SameFlow(rows, 50) =>
                      /\ predictions[i].predicted_flow = 50
                      /\ predictions[i].congestion_level = "moderate"

\* ten identical rows with flow 50 and a horizon of 3 have been answered
C12_Witness ==
    /\ Succeeded("predict_traffic_flow")
    /\ Len(run.data["historical_traffic"]) = 10
    /\ SameFlow(run.data["historical_traffic"], 50)
    /\ DictGet(run.data, "prediction_horizon", 1) = 3
    /\ Len(run.result.predictions) = 3
    /\ run.result.predictions[3].predicted_flow = 50

----------------------------------------------------------------------------
(* C13 *)

CongestionLevels == <<"low", "moderate", "high", "severe">>

\* C13: the congestion label of every prediction is the one the thresholds
\* 30/60/80 give its flow (< 30 low, 30 <= flow < 60 moderate, 60 <= flow < 80
\* high, >= 80 severe), every flow up to it has one of the four labels, and no
\* smaller flow has a higher label.
C13_Congestion ==
    Succeeded("predict_traffic_flow") =>
      \A i \in DOMAIN run.result.predictions :
        LET flow == run.result.predictions[i].predicted_flow
            label == run.result.predictions[i].congestion_level
        IN  /\ label = "low" <=> flow < 30
            /\ label = "moderate" <=> (30 <= flow /\ flow < 60)
            /\ label = "high" <=> (60 <= flow /\ flow < 80)
            /\ label = "severe" <=> flow >= 80
            /\ \A smaller \in 0..flow :
                 /\ calculate_congestion_level(smaller) \in Range(CongestionLevels)
                 /\ Rank(CongestionLevels, calculate_congestion_level(smaller))
                      <= Rank(CongestionLevels, label)

\* a flow of exactly 30 has been labelled
C13_Witness ==
    /\ Succeeded("predict_traffic_flow")
    /\ Len(run.result.predictions) > 0
    /\ run.result.predictions[1].predicted_flow = 30
    /\ run.result.predictions[1].congestion_level = "moderate"

----------------------------------------------------------------------------
(* C14 *)

\* the six levels: upper bound (none for the last), category, recommendation
AqiTable ==
    << <<50, "Good", "Air quality is satisfactory">>,
       <<100, "Moderate",
         "Unusually sensitive people should consider limiting prolonged outdoor exertion">>,
       <<150, "Unhealthy for Sensitive Groups",
         "People with respiratory or heart conditions should limit prolonged outdoor exertion">>,
       <<200, "Unhealthy", "Everyone should avoid prolonged outdoor exertion">>,
       <<300, "Very Unhealthy", "Everyone should avoid all outdoor exertion">>,
       <<300, "Hazardous", "Everyone should remain indoors">> >>

\* the level of an AQI value: the first whose inclusive upper bound it does not
\* exceed, the sixth above 300
AqiLevel(aqi) ==
    IF aqi > 300 THEN 6 ELSE CHOOSE l \in 1..5 :
      /\ aqi <= AqiTable[l][1]
      /\ \A k \in 1..(l - 1) : aqi > AqiTable[k][1]

\* C14: in every entry of a forecast the category is the one of the level of
\* the predicted AQI (<= 50 Good, <= 100 Moderate, <= 150 Unhealthy for
\* Sensitive Groups, <= 200 Unhealthy, <= 300 Very Unhealthy, above Hazardous),
\* and the health recommendation is the one of that same level.
C14_AqiLevels ==
    Succeeded("forecast_air_quality") =>
      \A i \in DOMAIN run.result.forecasts :
        LET entry == run.result.forecasts[i]
            level == AqiLevel(entry.predicted_aqi)
        IN  /\ entry.day = i
            /\ entry.category = AqiTable[level][2]
            /\ entry.health_recommendation = AqiTable[level][3]

\* a forecast has crossed from 300 (Very Unhealthy) to 301 (Hazardous)
C14_Witness ==
    /\ Succeeded("forecast_air_quality")
    /\ Len(run.result.forecasts) >= 2
    /\ run.data["historical_aqi"][Len(run.data["historical_aqi"])][2] = 300
    /\ run.result.forecasts[1].predicted_aqi = 301
    /\ run.result.forecasts[1].category = "Hazardous"
    /\ run.result.forecasts[1].health_recommendation = "Everyone should remain indoors"

----------------------------------------------------------------------------
(* C15 *)

\* the demand points of a transit call, its eps and its min_samples
PointsOf(data) == DictGet(data, "demand_points", <<>>)
EpsOf(data) == DictGet(DictGet(data, "constraints", <<>>), "max_distance", 10)
MinSamplesOf(data) == Max(3, Len(PointsOf(data)) \div 20)

\* the points within eps of the first point, and the others
GroupA(data) ==
    {i \in DOMAIN PointsOf(data) :
       Dist2(PointsOf(data)[i], PointsOf(data)[1]) <= EpsOf(data) * EpsOf(data)}
GroupB(data) == DOMAIN PointsOf(data) \ GroupA(data)

\* the two groups are tight (any two points of a group lie within eps), well
\* separated (a point of one lies further than twice eps from any point of the
\* other) and hold at least min_samples points each
TwoTightClusters(data) ==
    LET points == PointsOf(data)
        eps2 == EpsOf(data) * EpsOf(data)
    IN  /\ Len(points) >= 10
        /\ \A G \in {GroupA(data), GroupB(data)} :
             /\ Cardinality(G) >= MinSamplesOf(data)
             /\ \A i, j \in G : Dist2(points[i], points[j]) <= eps2
        /\ \A i \in GroupA(data), j \in GroupB(data) :
             Dist2(points[i], points[j]) > 4 * eps2

\* the summed weight of a group, in tenths
GroupWeight(data, G) == SumOver(G, Column(PointsOf(data), 3))

\* the result holds one stop for each of the two groups, with its summed weight
TwoStops(data, result) ==
    /\ IsSuccess(result)
    /\ Len(result.optimal_stops) = 2
    /\ result.optimal_stops[1].expected_demand = GroupWeight(data, GroupA(data))
    /\ result.optimal_stops[2].expected_demand = GroupWeight(data, GroupB(data))

\* C15 as stated: at least 10 demand points forming two tight, well-separated
\* clusters of at least min_samples points each give exactly 2 optimal stops,
\* the expected_demand of each the sum of its cluster's weights, for every
\* choice of the weights.
C15_Original ==
    (run.tool = "optimize_transit_routes" /\ TwoTightClusters(run.data)) =>
      TwoStops(run.data, run.result)

\* C15 as amended: the clustering is weighted, so what min_samples is compared
\* with is the summed weight of a neighbourhood, not its number of points. Two
\* tight, well-separated clusters give exactly 2 optimal stops carrying their
\* summed weights when the summed weight of each is at least min_samples; a
\* cluster whose summed weight is below min_samples is noise and gives no stop,
\* so that with one such cluster the call returns one stop, the other's.
C15_WeightedClusters ==
    (run.tool = "optimize_transit_routes" /\ TwoTightClusters(run.data)) =>
      LET heavy == {G \in {GroupA(run.data), GroupB(run.data)} :
                      GroupWeight(run.data, G) >= MinSamplesOf(run.data) * 10}
      IN  /\ Cardinality(heavy) = 2 => TwoStops(run.data, run.result)
          /\ Cardinality(heavy) = 1 =>
               /\ IsSuccess(run.result)
               /\ Len(run.result.optimal_stops) = 1
               /\ \A G \in heavy :
                    run.result.optimal_stops[1].expected_demand = GroupWeight(run.data, G)
          /\ IsSuccess(run.result) => Len(run.result.optimal_stops) = Cardinality(heavy)

\* two clusters of five and six points have given two stops with different demands
C15_Witness ==
    /\ run.tool = "optimize_transit_routes"
    /\ TwoTightClusters(run.data)
    /\ Cardinality(GroupB(run.data)) = 6
    /\ TwoStops(run.data, run.result)
    /\ run.result.optimal_stops[1].expected_demand = 5 * 200
    /\ run.result.optimal_stops[2].expected_demand = 6 * 10

----------------------------------------------------------------------------
(* C16 *)

FrequencyTiers ==
    <<"Every 30 minutes", "Every 15 minutes", "Every 10 minutes", "Every 5 minutes">>

\* demands (in tenths) on both sides of every tier
TierDemands == {tier * 10 + d : tier \in {0, 100, 500, 1000}, d \in {0 - 1, 0, 1}}

\* C16: the suggested frequency of every stop is the tier of its total demand
\* (< 100 every 30 minutes, 100 <= demand < 500 every 15, 500 <= demand < 1000
\* every 10, >= 1000 every 5); every demand has one of the four, and no smaller
\* demand is served at a shorter interval.
C16_Frequency ==
    Succeeded("optimize_transit_routes") =>
      \A i \in DOMAIN run.result.optimal_stops :
        LET demand == run.result.optimal_stops[i].expected_demand
            frequency == run.result.optimal_stops[i].suggested_frequency
        IN  /\ frequency = "Every 30 minutes" <=> demand < 100 * 10
            /\ frequency = "Every 15 minutes" <=> (100 * 10 <= demand /\ demand < 500 * 10)
            /\ frequency = "Every 10 minutes" <=> (500 * 10 <= demand /\ demand < 1000 * 10)
            /\ frequency = "Every 5 minutes" <=> demand >= 1000 * 10
            /\ \A smaller \in TierDemands :
                 /\ suggest_frequency(smaller) \in Range(FrequencyTiers)
                 /\ smaller <= demand =>
                      Rank(FrequencyTiers, suggest_frequency(smaller))
                        <= Rank(FrequencyTiers, frequency)

\* a stop with a demand of exactly 100 is served every 15 minutes
C16_Witness ==
    /\ Succeeded("optimize_transit_routes")
    /\ \E i \in DOMAIN run.result.optimal_stops :
         /\ run.result.optimal_stops[i].expected_demand = 100 * 10
         /\ run.result.optimal_stops[i].suggested_frequency = "Every 15 minutes"

----------------------------------------------------------------------------
(* C17 *)

\* every demand point of the call is noise to the clustering
AllNoise(data) ==
    LET points == PointsOf(data)
        clusters == DbscanFitPredict([i \in DOMAIN points |-> SubSeq(points[i], 1, 2)],
                                     Column(points, 3), EpsOf(data), MinSamplesOf(data))
    IN  \A i \in DOMAIN clusters : clusters[i] = 0 - 1

----------------------------------------------------------------------------
(* C18 *)

\* the number of hotspots the call detects at another contamination, the
\* hotspots of a failed call counting as none
DetectedAt(contamination) ==
    LET result == KernelOf(run.tool, ("contamination" :> contamination) @@ run.data,
                           run.fitted)
    IN  IF IsSuccess(result) THEN result.statistics.hotspots_detected ELSE 0

\* C18 as stated: on at least 50 incidents a call with contamination 0 returns
\* a Success with no or nearly no hotspots (at most one), and the number of
\* hotspots detected does not fall as the contamination rises.
C18_Original ==
    (run.tool = "detect_crime_hotspots"
       /\ Len(DictGet(run.data, "crime_incidents", <<>>)) >= 50
       /\ "contamination" \in DOMAIN run.data
       /\ run.data["contamination"] <= 50) =>
      /\ IsSuccess(run.result)
      /\ run.data["contamination"] = 0 => run.result.statistics.hotspots_detected <= 1
      /\ \A lower \in 0..run.data["contamination"] :
           DetectedAt(lower) <= run.result.statistics.hotspots_detected

----------------------------------------------------------------------------
(* C19 *)

\* the incidents the call flags, in input order, as the percentile rule of the
\* estimator flags them
Flagged(data, fitted) ==
    LET incidents == data["crime_incidents"]
        features == [i \in DOMAIN incidents |-> SubSeq(incidents[i], 1, 2) \o <<i - 1>>]
        predictions == IsolationFitPredict(ScoreSamples(features, fitted.depth),
                                           DictGet(data, "contamination", 10))
    IN  SelectIdx(Len(incidents), {i \in DOMAIN incidents : predictions[i] = 0 - 1})

\* the anomaly score of incident idx of the call
ScoreOf(data, fitted, idx) ==
    LET incidents == data["crime_incidents"]
    IN  ScoreSamples([i \in DOMAIN incidents |-> SubSeq(incidents[i], 1, 2) \o <<i - 1>>],
                     fitted.depth)[idx]

\* C19: with n incidents flagged, hotspots holds min(20, n) entries, the first
\* flagged incidents in input order; statistics.hotspots_detected is n,
\* high_risk_areas counts the high-risk ones among all n, and anomaly_rate is
\* n / total_incidents, between 0 and 1.
C19_Top20 ==
    Succeeded("detect_crime_hotspots") =>
      LET flagged == Flagged(run.data, run.fitted)
          n == Len(flagged)
          incidents == run.data["crime_incidents"]
          hotspots == run.result.hotspots
          statistics == run.result.statistics
      IN  /\ Len(hotspots) = (IF n < 20 THEN n ELSE 20)
          /\ \A h \in DOMAIN hotspots :
               /\ hotspots[h].location.lat = incidents[flagged[h]][1]
               /\ hotspots[h].location.lon = incidents[flagged[h]][2]
               /\ hotspots[h].incident_type = incidents[flagged[h]][4]
               /\ hotspots[h].severity = incidents[flagged[h]][5]
               /\ hotspots[h].anomaly_score = ScoreOf(run.data, run.fitted, flagged[h])
          /\ statistics.hotspots_detected = n
          /\ statistics.total_incidents = Len(incidents)
          /\ statistics.high_risk_areas =
               Cardinality({h \in DOMAIN flagged :
                              ScoreOf(run.data, run.fitted, flagged[h]) < 0 - 50})
          /\ statistics.anomaly_rate = [num |-> n, den |-> Len(incidents)]
          /\ 0 <= n /\ n <= Len(incidents)

\* more than 20 incidents were flagged, and some high-risk ones are not listed
C19_Witness ==
    /\ Succeeded("detect_crime_hotspots")
    /\ run.result.statistics.hotspots_detected > 20
    /\ Len(run.result.hotspots) = 20
    /\ run.result.statistics.high_risk_areas >
         Cardinality({h \in DOMAIN run.result.hotspots :
                        run.result.hotspots[h].risk_level = "high"})

----------------------------------------------------------------------------
(* C20 *)

\* C20: the risk_level of every hotspot entry is the label of the anomaly_score
\* of that entry: score < -0.5 high, -0.5 <= score < -0.3 medium, score >= -0.3
\* low (scores in hundredths); one of the three applies to every score.
C20_RiskLevel ==
    Succeeded("detect_crime_hotspots") =>
      \A h \in DOMAIN run.result.hotspots :
        LET score == run.result.hotspots[h].anomaly_score
            level == run.result.hotspots[h].risk_level
        IN  /\ level = "high" <=> score < 0 - 50
            /\ level = "medium" <=> (0 - 50 <= score /\ score < 0 - 30)
            /\ level = "low" <=> score >= 0 - 30
            /\ level \in {"high", "medium", "low"}

\* hotspots with the scores -0.5 and -0.3 have been labelled
C20_Witness ==
    /\ Succeeded("detect_crime_hotspots")
    /\ \E h \in DOMAIN run.result.hotspots :
         /\ run.result.hotspots[h].anomaly_score = 0 - 50
         /\ run.result.hotspots[h].risk_level = "medium"

----------------------------------------------------------------------------
(* C21 *)

\* the development goals of the call, as the kernel reads them
GoalsOf(data) == DictGet(data, "development_goals", <<>>)

AllZeroGoals(goals) ==
    /\ DOMAIN goals = {"housing_units", "jobs", "green_space_sqm"}
    /\ \A k \in DOMAIN goals : goals[k] = 0

\* C21: the four target percentages of a land-use result are those of the
\* ratios housing_units * 50 / total_area, jobs * 20 / total_area,
\* green_space_sqm / total_area and 0.1, divided by their sum: they are in the
\* proportion of the four ratios, none is negative, and they add up to 100%;
\* with all-zero goals industrial is 100% and the other three 0%.
C21_Normalized ==
    Succeeded("classify_land_use") =>
      LET od == run.result.optimal_distribution
          goals == GoalsOf(run.data)
          total_area == run.result.metrics.total_area_sqm
          Target(u) == od[u].target_percentage
          den == Target("industrial").den
          \* the percentage that stands for the ratio 0.1 is unit * total_area / den
          unit == Target("industrial").num \div total_area
      IN  /\ DOMAIN od = {"residential", "commercial", "green", "industrial"}
          /\ den > 0
          /\ \A u \in DOMAIN od : Target(u).den = den /\ Target(u).num >= 0
          /\ SumOver(DOMAIN od, [u \in DOMAIN od |-> Target(u).num]) = 100 * den
          /\ Target("industrial").num = unit * total_area
          /\ Target("residential").num
               = unit * DictGet(goals, "housing_units", 1000) * 50 * 10
          /\ Target("commercial").num = unit * DictGet(goals, "jobs", 500) * 20 * 10
          /\ Target("green").num = unit * DictGet(goals, "green_space_sqm", 10000) * 10
          /\ AllZeroGoals(goals) =>
               /\ Target("industrial").num = 100 * den
               /\ \A u \in DOMAIN od \ {"industrial"} : Target(u).num = 0

\* a land-use call with all-zero goals succeeded: industrial is the whole target
C21_Witness ==
    /\ Succeeded("classify_land_use")
    /\ AllZeroGoals(GoalsOf(run.data))
    /\ run.result.optimal_distribution["industrial"].target_percentage.num
         = 100 * run.result.optimal_distribution["industrial"].target_percentage.den

----------------------------------------------------------------------------
(* C22 *)

\* the recommendations of the result that convert to use type u
ConversionsTo(u) ==
    {c \in DOMAIN run.result.conversion_recommendations :
       run.result.conversion_recommendations[c].convert_to = u}

\* the number of parcels the result reports for use type u: none when it
\* reports no such use
ParcelsWith(u) ==
    IF u \in DOMAIN run.result.current_distribution
    THEN run.result.current_distribution[u].parcels
    ELSE 0

\* target ratio > 1.1 * current ratio, the target ratio being the reported
\* target percentage / 100 and the current ratio ParcelsWith(u) / parcels
ExceedsByTenth(u) ==
    LET target == run.result.optimal_distribution[u].target_percentage
        n == Len(run.data.parcels)
    IN  (target.num \div 100) * n * 10 > ParcelsWith(u) * 11 * target.den

\* C22: a land-use result recommends a conversion to a use type exactly when
\* the normalized target ratio of the type is more than 1.1 times the share of
\* the parcels (by count) that have it, which is 0 when no parcel has it; every
\* recommendation is for one of the four target types and no type has two.
C22_Conversions ==
    Succeeded("classify_land_use") =>
      /\ \A u \in DOMAIN run.result.optimal_distribution :
           /\ run.result.optimal_distribution[u].target_percentage.num % 100 = 0
           /\ ConversionsTo(u) # {} <=> ExceedsByTenth(u)
           /\ Cardinality(ConversionsTo(u)) <= 1
      /\ \A c \in DOMAIN run.result.conversion_recommendations :
           run.result.conversion_recommendations[c].convert_to
             \in DOMAIN run.result.optimal_distribution

\* one result recommends a conversion to a use no parcel has, recommends one to
\* a use some parcels have, and recommends none to another use with a positive
\* target
C22_Witness ==
    /\ Succeeded("classify_land_use")
    /\ \E u, v, w \in DOMAIN run.result.optimal_distribution :
         /\ ParcelsWith(u) = 0 /\ ConversionsTo(u) # {}
         /\ ParcelsWith(v) > 0 /\ ConversionsTo(v) # {}
         /\ run.result.optimal_distribution[w].target_percentage.num > 0
         /\ ConversionsTo(w) = {}

----------------------------------------------------------------------------
(* C23 *)

\* the number of distinct labels DBSCAN(eps=0.01, min_samples=3) gives the
\* coordinates of the parcels, the noise label counted as one
SpatialLabels(parcels) ==
    LET coords == [i \in DOMAIN parcels |-> SubSeq(parcels[i], 1, 2)]
        clusters == DbscanFitPredict(coords, [i \in DOMAIN coords |-> WeightUnit], 10, 3)
    IN  Cardinality({clusters[i] : i \in DOMAIN clusters})

\* 4 * n times (40 * green ratio + 30 * use types / 4 + 30 * labels / n), for
\* the n parcels of the call and the distribution the result reports
UnclampedScore ==
    LET n == Len(run.data.parcels)
    IN  160 * ParcelsWith("green")
          + 30 * n * Cardinality(DOMAIN run.result.current_distribution)
          + 120 * SpatialLabels(run.data.parcels)

\* C23: the sustainability score of a land-use result is 40 * green ratio
\* + 30 * (use types / 4) + 30 * (cluster labels / parcels), replaced by 100
\* when above 100 and by 0 when below 0: it lies in [0, 100] for every use
\* distribution and layout, more than four use types included.
C23_Sustainability ==
    Succeeded("classify_land_use") =>
      LET score == run.result.metrics.sustainability_score
          n == Len(run.data.parcels)
      IN  /\ score.den > 0
          /\ 0 <= score.num /\ score.num <= 100 * score.den
          /\ IF UnclampedScore > 100 * 4 * n THEN score.num = 100 * score.den
             ELSE IF UnclampedScore < 0 THEN score.num = 0
             ELSE score.num * 4 * n = UnclampedScore * score.den

\* with fourteen use types the weighted sum is above 100 and the score is 100
C23_Witness ==
    /\ Succeeded("classify_land_use")
    /\ Cardinality(DOMAIN run.result.current_distribution) > 4
    /\ UnclampedScore > 100 * 4 * Len(run.data.parcels)
    /\ run.result.metrics.sustainability_score.num
         = 100 * run.result.metrics.sustainability_score.den

----------------------------------------------------------------------------
(* C24 *)

\* the forecast horizon of an energy call
HorizonOf(data) == DictGet(data, "forecast_horizon", 7)

\* C24: a successful energy call with horizon H returns H forecasts numbered
\* 1..H in order; the forecast numbered d + 1 is the last historical demand
\* + the reported trend rate * d + the weekly seasonal component at index
\* d mod 7, and its recommended capacity is 1.15 times the forecast.
C24_Forecast ==
    Succeeded("forecast_energy_demand") =>
      LET forecasts == run.result.forecasts
          demand == Column(run.data.historical_demand, 2)
          last == demand[Len(demand)]
          slope == run.result.demand_patterns.trend_rate_mw_per_day
      IN  /\ Len(forecasts) = HorizonOf(run.data)
          /\ \A i \in DOMAIN forecasts :
               LET d == i - 1
                   f == forecasts[i].predicted_demand_mw
                   capacity == forecasts[i].recommended_capacity
               IN  /\ forecasts[i].day = d + 1
                   /\ f.den = 49 * slope.den
                   /\ f.num = (last * slope.den + slope.num * d) * 49
                                + SeasonalTimes49(demand, d % 7) * slope.den
                   \* capacity = (115 / 100) * f
                   /\ capacity.den = 100 * f.den
                   /\ capacity.num = 115 * f.num

\* eight forecasts on a demand with a trend and a weekly pattern: the eighth
\* has the seasonal component of the first and seven days of trend more
C24_Witness ==
    /\ Succeeded("forecast_energy_demand")
    /\ Len(run.result.forecasts) = 8
    /\ run.result.demand_patterns.trend_rate_mw_per_day.num # 0
    /\ SeasonalTimes49(Column(run.data.historical_demand, 2), 0) # 0
    /\ run.result.forecasts[8].predicted_demand_mw.num
         - run.result.forecasts[1].predicted_demand_mw.num
         = 7 * 49 * run.result.demand_patterns.trend_rate_mw_per_day.num

----------------------------------------------------------------------------
(* C25 *)

\* needs a at population p against needs b at population q
NeedsAtMost(a, b) == \A k \in DOMAIN a : a[k] <= b[k]

\* m = int(num / den) for num / den >= 0
IsTruncated(m, num, den) == m * den <= num /\ num < (m + 1) * den

\* C25: the infrastructure needs of every projection with a predicted
\* population p >= 0 are int(p / 5000) schools, int(p / 50000) hospitals,
\* int(p / 10000) parks and int(p * 0.15 / 1000) water capacity: none is
\* negative, hospitals = schools div 10, parks = schools div 2, and a
\* projection with at least the population of another has at least its needs.
C25_Infrastructure ==
    Succeeded("predict_urban_growth") =>
      LET projections == run.result.projections
          P(i) == PopPrediction(run.data.historical_data, i)
      IN  \A i \in DOMAIN projections :
            LET needs == projections[i].infrastructure_needs IN
            P(i).num >= 0 =>
              /\ IsTruncated(needs.schools_needed, P(i).num, P(i).den * 5000)
              /\ IsTruncated(needs.hospitals_needed, P(i).num, P(i).den * 50000)
              /\ IsTruncated(needs.parks_needed, P(i).num, P(i).den * 10000)
              /\ IsTruncated(needs.water_capacity_mld, P(i).num * 3, P(i).den * 20000)
              /\ \A k \in DOMAIN needs : needs[k] >= 0
              /\ needs.hospitals_needed = needs.schools_needed \div 10
              /\ needs.parks_needed = needs.schools_needed \div 2
              /\ \A j \in DOMAIN projections :
                   (P(j).num >= 0 /\ P(j).num <= P(i).num)
                     => NeedsAtMost(projections[j].infrastructure_needs, needs)

\* a projected population of 49999 needs 9 schools, no hospital, 4 parks and a
\* water capacity of 7
C25_Witness ==
    /\ Succeeded("predict_urban_growth")
    /\ \E i \in DOMAIN run.result.projections :
         /\ run.result.projections[i].predicted_population = 49999
         /\ run.result.projections[i].infrastructure_needs
              = [schools_needed |-> 9, hospitals_needed |-> 0,
                 parks_needed |-> 4, water_capacity_mld |-> 7]

----------------------------------------------------------------------------
(* C26 *)

\* the populations of the rows rise from every year to the next
StrictlyIncreasing(historical) ==
    \A i \in 1..(Len(historical) - 1) : historical[i][2] < historical[i + 1][2]

\* C26 as stated: with at least 5 rows of strictly increasing population and a
\* positive fitted trend, the projection one year ahead has growth_rate > 0.
C26_Original ==
    ( /\ Succeeded("predict_urban_growth")
      /\ Len(run.data.historical_data) >= 5
      /\ StrictlyIncreasing(run.data.historical_data)
      /\ run.result.model_coefficients.year_impact.num > 0
      /\ DictGet(run.data, "projection_years", 5) = 1 )
      => run.result.projections[1].growth_rate.num > 0

----------------------------------------------------------------------------
(* C27 *)

\* the entry a conditional append contributes
Listed(condition, text) == IF condition THEN <<text>> ELSE <<>>

\* the transit recommendations the reported stops call for
TransitListExpected(stops) ==
    LET high == {i \in DOMAIN stops : stops[i].expected_demand > 500 * 10}
        low == {i \in DOMAIN stops :
                  stops[i].coverage_area.num < stops[i].coverage_area.den}
    IN  Listed(Len(stops) > 20,
               <<"Consider implementing express routes for high-demand corridors">>)
        \o Listed(high # {}, <<"Prioritize", Cardinality(high),
                               "high-demand stops for immediate implementation">>)
        \o Listed(low # {}, <<"Add feeder routes for", Cardinality(low),
                              "areas with limited coverage">>)

\* the prevention strategies all the flagged incidents of the call, reported
\* or not, call for
CrimeListExpected(data, fitted) ==
    LET flagged == Flagged(data, fitted)
        high == {h \in DOMAIN flagged : ScoreOf(data, fitted, flagged[h]) < 0 - 50}
        violent == {h \in DOMAIN flagged : data["crime_incidents"][flagged[h]][5] > 3}
    IN  Listed(high # {}, <<"Deploy additional patrols to", Cardinality(high),
                            "high-risk areas">>)
        \o Listed(violent # {},
                  <<"Install CCTV cameras and improve lighting in violent crime hotspots">>)
        \o << <<"Implement community policing programs in identified hotspot areas">>,
              <<"Coordinate with social services for intervention programs">> >>

\* the grid recommendations the reported forecasts and temperature
\* sensitivity (in hundredths) call for
GridListExpected(result) ==
    LET sensitivity == result.demand_patterns.temperature_sensitivity
    IN  Listed(\E i \in DOMAIN result.forecasts :
                 result.forecasts[i].predicted_demand_mw.num
                   > 1500 * result.forecasts[i].predicted_demand_mw.den,
               <<"Prepare reserve capacity for peak demand periods">>)
        \o Listed(sensitivity > 70 \/ sensitivity < 0 - 70,
                  <<"Implement dynamic pricing based on temperature forecasts">>)
        \o << <<"Consider demand response programs during peak hours">>,
              <<"Optimize renewable energy integration during low-demand periods">> >>

\* the development priorities the reported conversions and the goals call for
PriorityListExpected(data, result) ==
    Listed(ConversionsTo("residential") # {},
           <<"Priority 1: Increase residential zoning to meet housing targets">>)
    \o Listed(DictGet(GoalsOf(data), "green_space_sqm", 0) > 0,
              <<"Priority 2: Preserve and expand green spaces for sustainability">>)
    \o << <<"Priority 3: Ensure mixed-use development for walkable neighborhoods">>,
          <<"Priority 4: Create transit-oriented development zones">> >>

\* C27: every recommendation list holds, in the order of the code, the entries
\* whose conditions hold of the computed metrics and no other: the prevention
\* strategies, the grid recommendations and the development priorities end
\* with their two unconditional entries, and the transit recommendations are
\* empty when none of the three conditions holds.
C27_Lists ==
    /\ Succeeded("optimize_transit_routes") =>
         run.result.recommendations = TransitListExpected(run.result.optimal_stops)
    /\ Succeeded("detect_crime_hotspots") =>
         /\ run.result.prevention_strategies = CrimeListExpected(run.data, run.fitted)
         /\ Len(run.result.prevention_strategies) >= 2
    /\ Succeeded("forecast_energy_demand") =>
         /\ run.result.grid_recommendations = GridListExpected(run.result)
         /\ Len(run.result.grid_recommendations) >= 2
    /\ Succeeded("classify_land_use") =>
         /\ run.result.development_priorities = PriorityListExpected(run.data, run.result)
         /\ Len(run.result.development_priorities) >= 2

\* a transit result whose stops meet none of the three conditions has no
\* recommendation
C27_Witness ==
    /\ Succeeded("optimize_transit_routes")
    /\ Len(run.result.optimal_stops) = 2
    /\ run.result.recommendations = <<>>

----------------------------------------------------------------------------
(* C28 *)

\* the demand points of the call DBSCAN leaves without a cluster (label -1)
NoisePoints(data) ==
    LET points == PointsOf(data)
        clusters == DbscanFitPredict([i \in DOMAIN points |-> SubSeq(points[i], 1, 2)],
                                     Column(points, 3), EpsOf(data), MinSamplesOf(data))
    IN  {i \in DOMAIN points : clusters[i] = 0 - 1}

\* C28: on a successful transit result total_clusters is the number of stops,
\* the cluster ids of the stops differ from each other and from -1, the
\* unclustered points and the points in clusters (average_cluster_size *
\* total_clusters) add up to the demand points, and the expected demands of
\* the stops add up to the weight of the points that are not noise.
C28_Accounting ==
    Succeeded("optimize_transit_routes") =>
      LET stops == run.result.optimal_stops
          metrics == run.result.route_metrics
          points == PointsOf(run.data)
          assigned == DOMAIN points \ NoisePoints(run.data)
      IN  /\ metrics.total_clusters = Len(stops)
          /\ \A i, j \in DOMAIN stops :
               i # j => stops[i].cluster_id # stops[j].cluster_id
          /\ \A i \in DOMAIN stops : stops[i].cluster_id # 0 - 1
          /\ metrics.average_cluster_size.den = metrics.total_clusters
          /\ metrics.unclustered_points + metrics.average_cluster_size.num = Len(points)
          /\ metrics.unclustered_points = Cardinality(NoisePoints(run.data))
          /\ SumSeq([i \in DOMAIN stops |-> stops[i].expected_demand])
               = SumOver(assigned, Column(points, 3))

\* a result with one stop and five points of noise, the stop holding the
\* weight of the other points
C28_Witness ==
    /\ Succeeded("optimize_transit_routes")
    /\ Len(run.result.optimal_stops) = 1
    /\ run.result.route_metrics.unclustered_points = 5
    /\ run.result.optimal_stops[1].expected_demand
         = SumOver(DOMAIN PointsOf(run.data) \ NoisePoints(run.data),
                   Column(PointsOf(run.data), 3))

----------------------------------------------------------------------------
(* C29 *)

\* the questions of the entries main_runner has appended to the file, in order
Served == [k \in 1..(Len(runner.file) - 1) |-> runner.file[k + 1].question]

\* C29 as stated: for any number of sub-questions, main_runner serves each
\* once in list order, never indexes past the end of the list, and runs the
\* summarization and the report only once all have been served.
C29_Original ==
    runner.pc # "none" =>
      /\ runner.pc # "IndexError"
      /\ Served = SubSeq(runner.subquestions, 1, Len(Served))
      /\ runner.pc \in {"report", "done"} => Served = runner.subquestions

----------------------------------------------------------------------------
(* C30 *)

\* C30: the text summarize_file returns has at most max_context tokens, and
\* summarize_file returns in the end unless some summarize_chunk call returns
\* a summary that does not have fewer tokens than its chunk.
C30_Terminates ==
    /\ [](summarizer.pc = "returned" => summarizer.returned <= summarizer.max_context)
    /\ <>(summarizer.pc = "returned" \/ ~summarizer.shrinks)

\* a file over the limit has been summarized, every summary shorter than its
\* chunk, into a text that is not empty
C30_Witness ==
    /\ summarizer.pc = "returned"
    /\ summarizer.shrinks
    /\ summarizer.initial_tokens > summarizer.max_context
    /\ Len(summarizer.chunks) > 1
    /\ summarizer.returned > 0

=============================================================================
